---- MODULE Spec2Model ----
(***************************************************************************)
(* A model of @flyyer/variables' Validator facade (src/src/index.ts):      *)
(* the constructor's option merge, getSchema, parse (JSON clone, then the  *)
(* compiled validator on the clone) and validate (the compiled validator   *)
(* on the caller's object), over a heap of JavaScript objects so that      *)
(* aliasing between the caller's instance and the returned data is a       *)
(* fact of the state.  The compiled validator is the Ajv engine configured *)
(* by DEFAULT_OPTIONS; its coercion, defaulting and stripping rules are    *)
(* modelled as operators.                                                  *)
(***************************************************************************)
EXTENDS Integers, Sequences, FiniteSets, TLC

(***************************************************************************)
(* Bounds of the model.                                                    *)
(***************************************************************************)
\* Longest string a caller puts in an instance.
MaxStrLen == 2
\* Largest number literal a caller puts in an instance.
MaxNum == 2

(***************************************************************************)
(* JavaScript values.  Every value is a record of the same shape, so that  *)
(* any two values can be compared.  A number is n + d/10; a string is a    *)
(* sequence of one-character strings; an object value is a reference into  *)
(* the heap (ref), except inside JSON text, where it carries its own       *)
(* properties (props).                                                     *)
(***************************************************************************)
EmptyProps == [k \in {} |-> 0]

Mk(t, b, n, d, s, items, ref, props) ==
  [t |-> t, b |-> b, n |-> n, d |-> d, s |-> s, items |-> items,
   ref |-> ref, props |-> props]

Undefined == Mk("undefined", FALSE, 0, 0, <<>>, <<>>, 0, EmptyProps)
Null      == Mk("null", FALSE, 0, 0, <<>>, <<>>, 0, EmptyProps)
NaN       == Mk("nan", FALSE, 0, 0, <<>>, <<>>, 0, EmptyProps)
Bool(b)   == Mk("boolean", b, 0, 0, <<>>, <<>>, 0, EmptyProps)
Num(n, d) == Mk("number", FALSE, n, d, <<>>, <<>>, 0, EmptyProps)
Str(s)    == Mk("string", FALSE, 0, 0, s, <<>>, 0, EmptyProps)
Arr(items) == Mk("array", FALSE, 0, 0, <<>>, items, 0, EmptyProps)
Obj(ref)  == Mk("object", FALSE, 0, 0, <<>>, <<>>, ref, EmptyProps)
JObj(props) == Mk("object", FALSE, 0, 0, <<>>, <<>>, 0, props)

\* JavaScript's typeof.
TypeOf(v) ==
  CASE v.t = "undefined" -> "undefined"
    [] v.t = "boolean" -> "boolean"
    [] v.t \in {"number", "nan"} -> "number"
    [] v.t = "string" -> "string"
    [] OTHER -> "object"

(***************************************************************************)
(* Strings and numbers: ToNumber of a string (the unary + of the engine's  *)
(* coercion rule) and the string of a number ("" + data).                  *)
(***************************************************************************)
Digits == <<"0", "1", "2", "3", "4", "5", "6", "7", "8", "9">>

IsDigit(c) == \E i \in 1..10 : Digits[i] = c

DigitVal(c) == (CHOOSE i \in 1..10 : Digits[i] = c) - 1

RECURSIVE DigitsVal(_)
DigitsVal(s) ==
  IF s = <<>> THEN 0
  ELSE 10 * DigitsVal(SubSeq(s, 1, Len(s) - 1)) + DigitVal(s[Len(s)])

AllDigits(s) == \A i \in 1..Len(s) : IsDigit(s[i])

RECURSIVE Trim(_)
Trim(s) ==
  IF s = <<>> THEN s
  ELSE IF s[1] = " " THEN Trim(Tail(s))
  ELSE IF s[Len(s)] = " " THEN Trim(SubSeq(s, 1, Len(s) - 1))
  ELSE s

\* A decimal literal without surrounding white space: the empty string is 0,
\* digits with at most one point (one fraction digit kept) are their value,
\* anything else is NaN.
ParseDecimal(s) ==
  LET dots == {i \in 1..Len(s) : s[i] = "."}
      p == CHOOSE i \in dots : TRUE
  IN  IF s = <<>> THEN Num(0, 0)
      ELSE IF dots = {} THEN
        IF AllDigits(s) THEN Num(DigitsVal(s), 0) ELSE NaN
      ELSE IF Cardinality(dots) > 1 \/ Len(s) = 1 THEN NaN
      ELSE IF ~AllDigits(SubSeq(s, 1, p - 1)) \/ ~AllDigits(SubSeq(s, p + 1, Len(s)))
              \/ Len(s) - p > 1
        THEN NaN
      ELSE Num(DigitsVal(SubSeq(s, 1, p - 1)), DigitsVal(SubSeq(s, p + 1, Len(s))))

\* ToNumber(string): white space is trimmed first.
StringToNumber(str) == ParseDecimal(Trim(str))

RECURSIVE NatToString(_)
NatToString(n) ==
  IF n < 10 THEN <<Digits[n + 1]>>
  ELSE NatToString(n \div 10) \o <<Digits[(n % 10) + 1]>>

\* "" + number.
NumberToString(v) ==
  IF v.t = "nan" THEN <<"N", "a", "N">>
  ELSE IF v.d = 0 THEN NatToString(v.n)
  ELSE NatToString(v.n) \o <<".">> \o NatToString(v.d)

(***************************************************************************)
(* JSON.stringify and JSON.parse.  The text of a value is modelled as a    *)
(* value tree in which objects carry their properties; stringify of        *)
(* undefined yields no text at all (JavaScript's undefined).               *)
(***************************************************************************)
\* A value inside an array: undefined and NaN are written as null.
JsonItem(v) == IF v.t \in {"undefined", "nan"} THEN Null ELSE v

JsonArray(items) == [i \in 1..Len(items) |-> JsonItem(items[i])]

\* A property value: NaN is written as null, arrays element by element.
JsonProp(v) ==
  IF v.t = "nan" THEN Null
  ELSE IF v.t = "array" THEN Arr(JsonArray(v.items))
  ELSE v

\* A text that leaves out the properties holding null as well.
JsonObject_DropsNull(props) ==
  [k \in {q \in DOMAIN props : props[q].t \notin {"undefined", "null"}} |->
     JsonProp(props[k])]

\* An object's text: properties holding undefined are left out.
JsonObject(props) ==
  [k \in {q \in DOMAIN props : props[q].t # "undefined"} |-> JsonProp(props[k])]

JSONStringify(v, heap) ==
  CASE v.t = "undefined" -> Undefined
    [] v.t = "nan" -> Null
    [] v.t = "array" -> Arr(JsonArray(v.items))
    [] v.t = "object" -> JObj(JsonObject(heap[v.ref]))
    [] OTHER -> v

\* The next unused reference of a heap.
FreshRef(heap) == Cardinality(DOMAIN heap) + 1

\* JSON.parse(text): a SyntaxError when the argument is undefined (it is read
\* as the text "undefined"); otherwise the value, each object of the text a
\* newly allocated object.
JSONParse(text, heap) ==
  IF text.t = "undefined"
  THEN [threw |-> TRUE, error |-> "SyntaxError", value |-> Undefined, heap |-> heap]
  ELSE IF text.t = "object"
  THEN [threw |-> FALSE, error |-> "", value |-> Obj(FreshRef(heap)),
        heap |-> (FreshRef(heap) :> text.props) @@ heap]
  ELSE [threw |-> FALSE, error |-> "", value |-> text, heap |-> heap]

(***************************************************************************)
(* Schema fragments, as the schema builder produces them: a scalar         *)
(* fragment has a type, an optional default, the Optional modifier and the *)
(* nullable flag; an object schema lists its properties in order, the      *)
(* required ones, and additionalProperties ("unset", "true" or "false").   *)
(***************************************************************************)
\* { ...a, ...b }
Spread(a, b) ==
  [k \in (DOMAIN a) \cup (DOMAIN b) |-> IF k \in DOMAIN b THEN b[k] ELSE a[k]]

\* A fragment as the engine reads it: its type, its default if any, the
\* Optional modifier and the nullable flag.
Fragment(type, hasDefault, default) ==
  [type |-> type, hasDefault |-> hasDefault, default |-> default,
   modifier |-> "", nullable |-> FALSE]

\* V.Integer(options) and V.String(options); options is <<>> or <<default>>.
Integer(options) ==
  IF options = <<>> THEN Fragment("integer", FALSE, Undefined)
  ELSE Fragment("integer", TRUE, options[1])

String(options) ==
  IF options = <<>> THEN Fragment("string", FALSE, Undefined)
  ELSE Fragment("string", TRUE, options[1])

\* V.Optional(fragment): the fragment, tagged with the Optional modifier.
Optional(fragment) == Spread(fragment, [modifier |-> "Optional"])

(***************************************************************************)
(* The schema helper layer (VariableBuilder).  A helper's options and the  *)
(* fragment it returns are objects: functions from property names to       *)
(* values.  The values of type, format, contentMediaType, kind and title   *)
(* are strings, default is a JavaScript value, enum a list of keys and     *)
(* nullable a boolean.                                                     *)
(***************************************************************************)
URI_REFERENCE == "uri-reference"

MIME_IMAGE == "image/*"

MIME_FONT == "font/*"

\* The builder's tags of a string fragment and of an enum fragment.
StringKind == "StringKind"

EnumKind == "EnumKind"

\* A URL helper that applies its format after the caller's options.
URL_MarkersLast(options) ==
  Spread(options, [format |-> URI_REFERENCE, kind |-> StringKind, type |-> "string"])

\* { format, ...options, kind: StringKind, type: "string" }
URL(options) ==
  Spread(Spread([format |-> URI_REFERENCE], options),
         [kind |-> StringKind, type |-> "string"])

\* An Image helper that forgets the media type.
Image_NoMediaType(options) ==
  Spread(Spread([format |-> URI_REFERENCE], options),
         [kind |-> StringKind, type |-> "string"])

\* { contentMediaType: MIME_IMAGE, format, ...options, kind, type }
Image(options) ==
  Spread(Spread([contentMediaType |-> MIME_IMAGE, format |-> URI_REFERENCE], options),
         [kind |-> StringKind, type |-> "string"])

\* A Font helper that also sets the format its comment speaks of.
Font_WithFormat(options) ==
  Spread(Spread([contentMediaType |-> MIME_FONT, format |-> URI_REFERENCE], options),
         [kind |-> StringKind, type |-> "string"])

\* { contentMediaType: MIME_FONT, ...options, kind, type }
Font(options) ==
  Spread(Spread([contentMediaType |-> MIME_FONT], options),
         [kind |-> StringKind, type |-> "string"])

ColorHex(options) ==
  Spread(Spread([format |-> "color-hex"], options),
         [kind |-> StringKind, type |-> "string"])

Email(options) ==
  Spread(Spread([format |-> "email"], options),
         [kind |-> StringKind, type |-> "string"])

Date(options) ==
  Spread(Spread([format |-> "date"], options),
         [kind |-> StringKind, type |-> "string"])

Time(options) ==
  Spread(Spread([format |-> "time"], options),
         [kind |-> StringKind, type |-> "string"])

DateTime(options) ==
  Spread(Spread([format |-> "date-time"], options),
         [kind |-> StringKind, type |-> "string"])

\* A Nullable that returns its argument as it is.
Nullable_Same(schema) == schema

\* { ...schema, nullable: true }
Nullable(schema) == Spread(schema, [nullable |-> TRUE])

\* isNaN(key): the key, converted to a number, is NaN.
isNaN(k) == StringToNumber(k).t = "nan"

\* An EnumKeys that lets the caller's options win.
EnumKeys_OptionsLast(item, options) ==
  Spread([kind |-> EnumKind, type |-> "string", enum |-> SelectSeq(item, isNaN)],
         options)

\* EnumKeys(item, options); item is written as Object.keys(item), the keys of
\* the mapping in iteration order, each key a sequence of characters.
\* { ...options, kind: EnumKind, type, enum: keys }
EnumKeys(item, options) ==
  Spread(options, [kind |-> EnumKind, type |-> "string", enum |-> SelectSeq(item, isNaN)])

(***************************************************************************)
(* The detection predicates (class Is).  The argument is a JavaScript      *)
(* value, a fragment being an object that carries its properties; the      *)
(* outcome is [threw, error, value].                                       *)
(***************************************************************************)
IsReturn(b) == [threw |-> FALSE, error |-> "", value |-> b]

IsThrow(error) == [threw |-> TRUE, error |-> error, value |-> FALSE]

\* !variable
Falsy(variable) ==
  \/ variable.t \in {"undefined", "null", "nan"}
  \/ variable = Bool(FALSE)
  \/ variable = Num(0, 0)
  \/ variable = Str(<<>>)

\* variable[name] === value, for a variable that is not null or undefined.
PropertyIs(variable, name, value) ==
  /\ variable.t = "object"
  /\ name \in DOMAIN variable.props
  /\ variable.props[name] = value

\* Reading a property of null or undefined is a TypeError.
IsNullable(variable) ==
  IF variable.t \in {"undefined", "null"}
  THEN IsThrow("TypeError: Cannot read properties")
  ELSE IsReturn(PropertyIs(variable, "nullable", TRUE))

IsURL(variable) ==
  IF Falsy(variable) THEN IsThrow("TypeError: Missing argument")
  ELSE IsReturn(PropertyIs(variable, "type", "string")
                  /\ PropertyIs(variable, "format", URI_REFERENCE))

\* An Is.Image that does not ask Is.URL first.
IsImageAfter_Alone(url, variable) ==
  IsReturn(PropertyIs(variable, "contentMediaType", MIME_IMAGE))

\* this.URL(variable) && variable["contentMediaType"] === MIME_IMAGE, url being
\* the outcome of this.URL(variable).
IsImageAfter(url, variable) ==
  IF url.threw THEN url
  ELSE IsReturn(url.value /\ PropertyIs(variable, "contentMediaType", MIME_IMAGE))

IsImage(variable) == IsImageAfter(IsURL(variable), variable)

IsFont(variable) ==
  IF Falsy(variable) THEN IsThrow("TypeError: Missing argument")
  ELSE IsReturn(PropertyIs(variable, "type", "string")
                  /\ PropertyIs(variable, "contentMediaType", MIME_FONT))

(***************************************************************************)
(* Object schemas.                                                         *)
(***************************************************************************)
\* What the engine reads of a property's fragment; a fragment of the helper
\* layer has a default when it has the property, and its other properties
\* (kind, title, contentMediaType) are annotations.
Keywords(fragment) ==
  [type |-> fragment.type,
   hasDefault |-> IF "hasDefault" \in DOMAIN fragment THEN fragment.hasDefault
                  ELSE "default" \in DOMAIN fragment,
   default |-> IF "default" \in DOMAIN fragment THEN fragment.default ELSE Undefined,
   modifier |-> IF "modifier" \in DOMAIN fragment THEN fragment.modifier ELSE "",
   nullable |-> "nullable" \in DOMAIN fragment /\ fragment.nullable = TRUE,
   format |-> IF "format" \in DOMAIN fragment THEN fragment.format ELSE ""]

\* V.Object(properties, options): properties is a sequence of <<key, fragment>>;
\* the required keys are those whose fragment is not Optional.
Object(properties, additionalProperties) ==
  [type |-> "object",
   keys |-> [i \in 1..Len(properties) |-> properties[i][1]],
   properties |-> [k \in {properties[i][1] : i \in 1..Len(properties)} |->
                     Keywords((CHOOSE pr \in {properties[i] : i \in 1..Len(properties)} :
                                 pr[1] = k)[2])],
   required |-> {properties[i][1] : i \in
                   {j \in 1..Len(properties) :
                      Keywords(properties[j][2]).modifier # "Optional"}},
   additionalProperties |-> additionalProperties]

\* The schemas of the documentation and of the tests.
SchemaNumber == Object(<<<<"number", Optional(Integer(<<Num(32, 0)>>))>>>>, "unset")

SchemaCount == Object(<<<<"count", Integer(<<Num(10, 0)>>)>>>>, "unset")

SchemaTitleStrict ==
  Object(<<<<"title", String(<<>>)>>, <<"description", Optional(String(<<>>))>>>>, "false")

SchemaTitleLoose ==
  Object(<<<<"title", String(<<>>)>>, <<"description", Optional(String(<<>>))>>>>, "true")

\* "#FFFFFF"
White == Str(<<"#", "F", "F", "F", "F", "F", "F">>)

\* The schema of the ColorHex test.
SchemaColor ==
  Object(<<<<"color", ColorHex([default |-> White])>>,
           <<"colorWithAlpha", Optional(ColorHex(EmptyProps))>>>>, "unset")

\* The schema of Nullable's documentation.
SchemaBackground ==
  Object(<<<<"background", Nullable(Image(EmptyProps))>>,
           <<"tint", Nullable(Optional(ColorHex([title |-> "Tint color"])))>>>>, "unset")

\* A nullable property with a default.
SchemaNullableCount == Object(<<<<"count", Nullable(Integer(<<Num(10, 0)>>))>>>>, "unset")

\* The schema of the Email test.
SchemaEmail == Object(<<<<"email", Email(EmptyProps)>>>>, "unset")

\* "2021-12-30T20:20:39.000Z", what Date.prototype.toISOString() returns.
IsoDateTime ==
  Str(<<"2", "0", "2", "1", "-", "1", "2", "-", "3", "0", "T", "2", "0", ":", "2", "0", ":", "3", "9", ".", "0", "0", "0", "Z">>)

\* The schema of the DateTime, Date and Time test.  The default of "optional"
\* is a Date there; the engine writes a default into the validator as JSON,
\* and the JSON of a Date is its ISO string.
SchemaDates ==
  Object(<<<<"datetime", DateTime(EmptyProps)>>, <<"date", Date(EmptyProps)>>,
           <<"time", Time(EmptyProps)>>,
           <<"optional", Optional(DateTime([default |-> IsoDateTime]))>>>>, "unset")

\* The schemas without a string format, and those with one or with Nullable.
Schemas == {SchemaNumber, SchemaCount, SchemaTitleStrict, SchemaTitleLoose}

FormatSchemas == {SchemaColor, SchemaBackground, SchemaNullableCount,
                  SchemaEmail, SchemaDates}

(***************************************************************************)
(* Engine options.  An options object maps option names to values, all     *)
(* written as strings ("true", "false", "array").                          *)
(***************************************************************************)
\* DEFAULT_OPTIONS with one default changed.
DEFAULT_OPTIONS_NoDefaults ==
  [coerceTypes |-> "array", strict |-> "false", useDefaults |-> "false",
   removeAdditional |-> "true", allErrors |-> "true"]

DEFAULT_OPTIONS_EmptyDefaults ==
  [coerceTypes |-> "array", strict |-> "false", useDefaults |-> "empty",
   removeAdditional |-> "true", allErrors |-> "true"]

DEFAULT_OPTIONS_NoCoercion ==
  [coerceTypes |-> "false", strict |-> "false", useDefaults |-> "true",
   removeAdditional |-> "true", allErrors |-> "true"]

DEFAULT_OPTIONS_KeepAdditional ==
  [coerceTypes |-> "array", strict |-> "false", useDefaults |-> "true",
   removeAdditional |-> "false", allErrors |-> "true"]

DEFAULT_OPTIONS_FirstError ==
  [coerceTypes |-> "array", strict |-> "false", useDefaults |-> "true",
   removeAdditional |-> "true", allErrors |-> "false"]

DEFAULT_OPTIONS ==
  [coerceTypes |-> "array", strict |-> "false", useDefaults |-> "true",
   removeAdditional |-> "true", allErrors |-> "true"]

\* Validator.DEFAULT_FORMATS_OPTIONS
DEFAULT_FORMATS_OPTIONS == [mode |-> "fast"]

\* A merge that writes the caller's options into the defaults.
MergeOptions_Assign(defaults, given) ==
  [merged |-> Spread(defaults, given), defaults |-> Spread(defaults, given)]

\* { ...defaults, ...given }: the merged options, and the defaults as the merge
\* leaves them.
MergeOptions(defaults, given) ==
  [merged |-> Spread(defaults, given), defaults |-> defaults]

\* The plugin's options a caller passes to the constructor.
CallerFormatOptions ==
  {EmptyProps,
   [mode |-> "full"],
   [keywords |-> "true"],
   [mode |-> "fast", keywords |-> "true"]}

\* The options a caller passes to the constructor; EmptyProps is "none".
CallerOptions ==
  {EmptyProps,
   [useDefaults |-> "false"],
   [useDefaults |-> "empty"],
   [removeAdditional |-> "false"],
   [coerceTypes |-> "false"],
   [coerceTypes |-> "true"],
   [allErrors |-> "false"],
   [strict |-> "true"]}

(***************************************************************************)
(* The compiled validator: the engine's rules for one value against one    *)
(* scalar fragment (type check, coercion), and for an instance against an  *)
(* object schema (defaults, required, additionalProperties, properties).   *)
(***************************************************************************)
\* The engine's data-type check; strict numbers also demand a finite number.
CheckDataType(type, v, strictNumbers) ==
  CASE type = "null" -> v.t = "null"
    [] type = "array" -> v.t = "array"
    [] type = "object" -> v.t = "object"
    [] type = "integer" -> v.t = "number" /\ v.d = 0
    [] type = "number" -> v.t = "number" \/ (v.t = "nan" /\ ~strictNumbers)
    [] OTHER -> TypeOf(v) = type

CheckDataTypes(types, v, strictNumbers) ==
  \E i \in 1..Len(types) : CheckDataType(types[i], v, strictNumbers)

\* The types of a fragment: its type, and "null" when it is nullable.
SchemaTypes(fragment) ==
  IF fragment.nullable /\ fragment.type # "null"
  THEN <<fragment.type, "null">> ELSE <<fragment.type>>

\* Coercion of v to one type, num being +v when v is a string:
\* [ok, value]; ok is FALSE when no rule applies.
CoerceWith(type, v, num) ==
  LET no == [ok |-> FALSE, value |-> v]
      toNumber == IF v.t = "boolean" THEN Num(IF v.b THEN 1 ELSE 0, 0)
                  ELSE IF v.t = "null" THEN Num(0, 0)
                  ELSE num
      numeric == v.t = "string" /\ v.s # <<>> /\ num.t = "number"
  IN  CASE type = "string" ->
             IF v.t \in {"number", "nan"}
               THEN [ok |-> TRUE, value |-> Str(NumberToString(v))]
             ELSE IF v.t = "boolean"
               THEN [ok |-> TRUE,
                     value |-> Str(IF v.b THEN <<"t", "r", "u", "e">>
                                          ELSE <<"f", "a", "l", "s", "e">>)]
             ELSE IF v.t = "null" THEN [ok |-> TRUE, value |-> Str(<<>>)]
             ELSE no
        [] type = "number" ->
             IF v.t = "boolean" \/ v.t = "null" \/ numeric
             THEN [ok |-> TRUE, value |-> toNumber] ELSE no
        [] type = "integer" ->
             IF v.t = "boolean" \/ v.t = "null" \/ (numeric /\ num.d = 0)
             THEN [ok |-> TRUE, value |-> toNumber] ELSE no
        [] type = "boolean" ->
             IF v = Str(<<"f", "a", "l", "s", "e">>) \/ v = Num(0, 0) \/ v.t = "null"
               THEN [ok |-> TRUE, value |-> Bool(FALSE)]
             ELSE IF v = Str(<<"t", "r", "u", "e">>) \/ v = Num(1, 0)
               THEN [ok |-> TRUE, value |-> Bool(TRUE)]
             ELSE no
        [] type = "null" ->
             IF v = Str(<<>>) \/ v = Num(0, 0) \/ v = Bool(FALSE)
             THEN [ok |-> TRUE, value |-> Null] ELSE no
        [] type = "array" ->
             IF v.t \in {"string", "number", "nan", "boolean", "null"}
             THEN [ok |-> TRUE, value |-> Arr(<<v>>)] ELSE no
        [] OTHER -> no

CoerceSpecificType(type, v) ==
  CoerceWith(type, v, IF v.t = "string" THEN StringToNumber(v.s) ELSE NaN)

\* The types of a fragment the engine can coerce to under coerceTypes.
CoerceToTypes(types, coerceTypes) ==
  SelectSeq(types, LAMBDA t :
    /\ coerceTypes # "false"
    /\ \/ t \in {"string", "number", "integer", "boolean", "null"}
       \/ (t = "array" /\ coerceTypes = "array"))

\* The first type of the chain whose rule applies.
RECURSIVE CoerceChain(_, _)
RECURSIVE CoerceElse(_, _, _)
CoerceChain(coerceTo, v) ==
  IF coerceTo = <<>> THEN [ok |-> FALSE, value |-> v]
  ELSE CoerceElse(CoerceSpecificType(Head(coerceTo), v), Tail(coerceTo), v)

CoerceElse(r, rest, v) == IF r.ok THEN r ELSE CoerceChain(rest, v)

\* The outcome of the chain on the unwrapped data; when nothing applies the
\* value stays v itself (a type error).
CoercedOr(r, v) == IF r.ok THEN r ELSE [ok |-> FALSE, value |-> v]

\* A value of the wrong type: with coerceTypes "array" a one-element array is
\* unwrapped first; then the chain of coercions.  [ok, value].
CoerceUnwrapped(types, coerceTo, v, unwrap, data, strictNumbers) ==
  IF coerceTo = <<>> THEN [ok |-> FALSE, value |-> v]
  ELSE IF unwrap /\ CheckDataTypes(types, data, strictNumbers)
    THEN [ok |-> TRUE, value |-> data]
  ELSE CoercedOr(CoerceChain(coerceTo, data), v)

CoerceData(types, v, opts) ==
  CoerceUnwrapped(types, CoerceToTypes(types, opts.coerceTypes), v,
    opts.coerceTypes = "array" /\ v.t = "array" /\ Len(v.items) = 1,
    IF opts.coerceTypes = "array" /\ v.t = "array" /\ Len(v.items) = 1
      THEN v.items[1] ELSE v,
    opts.strict = "true")

\* One property value against the types of its fragment: [ok, value].
ValidateTyped(types, v, opts) ==
  IF CheckDataTypes(types, v, opts.strict = "true")
  THEN [ok |-> TRUE, value |-> v]
  ELSE CoerceData(types, v, opts)

(***************************************************************************)
(* String formats.  The facade adds "color-hex"; "uri-reference" is one of *)
(* the formats of the formats plugin.  A format the engine does not know   *)
(* is ignored; so is the format of a value that is not a string.           *)
(***************************************************************************)
HexDigits == {"0", "1", "2", "3", "4", "5", "6", "7", "8", "9",
              "A", "B", "C", "D", "E", "F"}

\* The upper-case form of a hexadecimal letter (the i flag of the pattern).
ToUpper(c) ==
  CASE c = "a" -> "A" [] c = "b" -> "B" [] c = "c" -> "C"
    [] c = "d" -> "D" [] c = "e" -> "E" [] c = "f" -> "F"
    [] OTHER -> c

\* /^#?(...)$/ : the text after the optional leading '#'.
AfterHash(s) == IF s # <<>> /\ s[1] = "#" THEN Tail(s) ELSE s

\* The pattern without the i flag.
ColorHexBody_CaseSensitive(body) ==
  /\ Len(body) \in {3, 4, 6, 8}
  /\ \A i \in 1..Len(body) : body[i] \in HexDigits

\* ([0-9A-F]{3}|[0-9A-F]{4}|[0-9A-F]{6}|[0-9A-F]{8}) with the i flag, up to $.
ColorHexBody(body) ==
  /\ Len(body) \in {3, 4, 6, 8}
  /\ \A i \in 1..Len(body) : ToUpper(body[i]) \in HexDigits

REGEX_COLOR_HEX(s) == ColorHexBody(AfterHash(s))

\* The plugin's "uri-reference" (fast mode), for strings of letters, digits,
\* '.', '#' and blanks: it matches exactly the strings without white space.
UriReference(s) == \A i \in 1..Len(s) : s[i] # " "

\* The plugin's "date", "time", "date-time" and "email" (fast mode) are
\* patterns too.  A pattern of fixed length is written as the sequence of its
\* character classes.
DigitChars == {"0", "1", "2", "3", "4", "5", "6", "7", "8", "9"}

FitsPattern(s, pattern) ==
  /\ Len(s) = Len(pattern)
  /\ \A i \in 1..Len(s) : s[i] \in pattern[i]

\* \d\d\d\d-[0-1]\d-[0-3]\d
DatePattern ==
  <<DigitChars, DigitChars, DigitChars, DigitChars, {"-"}, {"0", "1"}, DigitChars,
    {"-"}, {"0", "1", "2", "3"}, DigitChars>>

FormatDate(s) == FitsPattern(s, DatePattern)

\* [0-2]\d:[0-5]\d:[0-5]\d|23:59:60
ClockPattern ==
  <<{"0", "1", "2"}, DigitChars, {":"}, {"0", "1", "2", "3", "4", "5"}, DigitChars,
    {":"}, {"0", "1", "2", "3", "4", "5"}, DigitChars>>

Clock(s) == FitsPattern(s, ClockPattern) \/ s = <<"2", "3", ":", "5", "9", ":", "6", "0">>

\* \.\d+
Fraction(s) ==
  /\ Len(s) >= 2
  /\ s[1] = "."
  /\ \A i \in 2..Len(s) : s[i] \in DigitChars

\* z|[+-]\d\d(?::?\d\d)? with the i flag
ZonePatterns ==
  {<<{"z", "Z"}>>,
   <<{"+", "-"}, DigitChars, DigitChars>>,
   <<{"+", "-"}, DigitChars, DigitChars, DigitChars, DigitChars>>,
   <<{"+", "-"}, DigitChars, DigitChars, {":"}, DigitChars, DigitChars>>}

Zone(s) == \E pattern \in ZonePatterns : FitsPattern(s, pattern)

\* What follows the clock: an optional fraction, then the zone.
AfterClock(rest, zoneOptional) ==
  \E cut \in 0..Len(rest) :
    /\ cut = 0 \/ Fraction(SubSeq(rest, 1, cut))
    /\ \/ Zone(SubSeq(rest, cut + 1, Len(rest)))
       \/ zoneOptional /\ cut = Len(rest)

ClockThen(s, zoneOptional) ==
  /\ Len(s) >= 8
  /\ Clock(SubSeq(s, 1, 8))
  /\ AfterClock(SubSeq(s, 9, Len(s)), zoneOptional)

FormatTime(s) == ClockThen(s, TRUE)

\* date, [t\s], time with its zone
FormatDateTime(s) ==
  /\ Len(s) >= 12
  /\ FormatDate(SubSeq(s, 1, 10))
  /\ s[11] \in {"t", "T", " "}
  /\ ClockThen(SubSeq(s, 12, Len(s)), FALSE)

\* [a-z0-9] with the i flag
AlphaNumeric ==
  DigitChars \cup
  {"a", "b", "c", "d", "e", "f", "g", "h", "i", "j", "k", "l", "m", "n", "o", "p",
   "q", "r", "s", "t", "u", "v", "w", "x", "y", "z",
   "A", "B", "C", "D", "E", "F", "G", "H", "I", "J", "K", "L", "M", "N", "O", "P",
   "Q", "R", "S", "T", "U", "V", "W", "X", "Y", "Z"}

\* The characters of the local part, the grave accent aside.
LocalChars ==
  AlphaNumeric \cup {".", "!", "#", "$", "%", "&", "'", "*", "+", "/", "=", "?", "^",
                     "_", "{", "|", "}", "~", "-"}

\* Labels of letters, digits and inner hyphens, separated by dots (the bound
\* of 63 characters on a label is beyond the strings tried).
Domain(d) ==
  /\ d # <<>>
  /\ d[1] \in AlphaNumeric /\ d[Len(d)] \in AlphaNumeric
  /\ \A i \in 1..Len(d) : d[i] \in AlphaNumeric \cup {"-", "."}
  /\ \A i \in 2..(Len(d) - 1) :
       d[i] = "." => d[i - 1] \in AlphaNumeric /\ d[i + 1] \in AlphaNumeric

FormatEmail(s) ==
  \E at \in 2..Len(s) :
    /\ s[at] = "@"
    /\ \A i \in 1..(at - 1) : s[i] \in LocalChars
    /\ Domain(SubSeq(s, at + 1, Len(s)))

\* The formats of an engine the plugin was not added to.
FormatValid_NoPlugin(format, s) ==
  CASE format = "color-hex" -> REGEX_COLOR_HEX(s)
    [] OTHER -> TRUE

\* The formats the constructor adds: those of the plugin, and "color-hex".
FormatValid(format, s) ==
  CASE format = "color-hex" -> REGEX_COLOR_HEX(s)
    [] format = URI_REFERENCE -> UriReference(s)
    [] format = "email" -> FormatEmail(s)
    [] format = "date" -> FormatDate(s)
    [] format = "time" -> FormatTime(s)
    [] format = "date-time" -> FormatDateTime(s)
    [] OTHER -> TRUE

\* The format keyword on the outcome r of the type check: it applies to a
\* value that is (now) a string.
FormatChecked(format, r) ==
  IF r.ok /\ r.value.t = "string" /\ ~FormatValid(format, r.value.s)
  THEN [ok |-> FALSE, value |-> r.value, keyword |-> "format"]
  ELSE [ok |-> r.ok, value |-> r.value, keyword |-> "type"]

ValidateValue(fragment, v, opts) ==
  FormatChecked(fragment.format, ValidateTyped(SchemaTypes(fragment), v, opts))

\* An error descriptor: the failing keyword, the path of the failing value
\* ("" is the instance itself) and the property a root-level error names.
ErrorObject(keyword, instancePath, property) ==
  [keyword |-> keyword, instancePath |-> instancePath, property |-> property]

\* The order in which the properties of an object are enumerated.
KeyOrder == <<"number", "count", "title", "description", "color", "colorWithAlpha",
              "background", "tint", "email", "datetime", "date", "time", "optional",
              "extra">>

\* data[k] === undefined
Missing(props, k) == k \notin DOMAIN props \/ props[k].t = "undefined"

\* useDefaults: every property that has a default and is undefined in the data
\* is assigned its default; with useDefaults "empty" also one that is null or
\* the empty string.
NeedsDefault(props, k, useDefaults) ==
  \/ Missing(props, k)
  \/ useDefaults = "empty" /\ props[k] \in {Null, Str(<<>>)}

AssignDefaults(schema, props, useDefaults) ==
  LET filled == {k \in DOMAIN schema.properties :
                   schema.properties[k].hasDefault /\ NeedsDefault(props, k, useDefaults)}
  IN  [k \in (DOMAIN props) \cup filled |->
         IF k \in filled THEN schema.properties[k].default ELSE props[k]]

\* required: one error for each required property that is undefined.
RequiredErrors(schema, props) ==
  LET missing == SelectSeq(schema.keys,
                   LAMBDA k : k \in schema.required /\ Missing(props, k))
  IN  [i \in 1..Len(missing) |-> ErrorObject("required", "", missing[i])]

\* additionalProperties: false. The undeclared properties of the data, in order.
Additional(schema, props) ==
  SelectSeq(KeyOrder, LAMBDA k : k \in DOMAIN props /\ k \notin DOMAIN schema.properties)

\* The outcome r of one property's check, recorded in st = [props, errors]:
\* the value as the check leaves it (a value coerced before its format failed
\* stays coerced) and, on failure, an error of the failing keyword.
Outcome(st, k, r) ==
  IF r.ok
  THEN [st EXCEPT !.props = [st.props EXCEPT ![k] = r.value]]
  ELSE [props |-> [st.props EXCEPT ![k] = r.value],
        errors |-> Append(st.errors, ErrorObject(r.keyword, k, ""))]

\* properties: each declared property that is defined in the data is checked
\* and coerced in turn.  With allErrors off the first error ends the run.
RECURSIVE ValidateProperties(_, _, _, _)
ValidateProperties(schema, keys, st, opts) ==
  IF keys = <<>> \/ (opts.allErrors # "true" /\ st.errors # <<>>) THEN st
  ELSE IF Missing(st.props, Head(keys))
    THEN ValidateProperties(schema, Tail(keys), st, opts)
  ELSE ValidateProperties(schema, Tail(keys),
         Outcome(st, Head(keys),
           ValidateValue(schema.properties[Head(keys)], st.props[Head(keys)], opts)),
         opts)

\* With allErrors off a keyword reports its first error only.
FirstOnly(errors) == IF errors = <<>> THEN <<>> ELSE <<errors[1]>>

Reported(errors, opts) == IF opts.allErrors = "true" THEN errors ELSE FirstOnly(errors)

\* additionalProperties on the properties p1, e1 being the errors so far:
\* with removeAdditional the undeclared properties are deleted, without it
\* each is an error.
StripAdditional(schema, p1, e1, extra, opts) ==
  IF opts.removeAdditional = "true"
  THEN [props |-> [k \in (DOMAIN p1) \ {extra[i] : i \in 1..Len(extra)} |-> p1[k]],
        errors |-> e1]
  ELSE [props |-> p1,
        errors |-> e1 \o Reported([i \in 1..Len(extra) |->
                            ErrorObject("additionalProperties", "", extra[i])], opts)]

\* required, then additionalProperties, on the properties with their defaults.
RequiredThenAdditional(schema, p1, e1, opts) ==
  StripAdditional(schema, p1, e1,
    IF (opts.allErrors = "true" \/ e1 = <<>>) /\ schema.additionalProperties = "false"
      THEN Additional(schema, p1) ELSE <<>>,
    opts)

WithDefaults(schema, p1, opts) ==
  ValidateProperties(schema, schema.keys,
    RequiredThenAdditional(schema, p1, Reported(RequiredErrors(schema, p1), opts), opts),
    opts)

\* The compiled validator applied to the properties of an object:
\* [props, errors], the properties as the call leaves them.
ValidateObject(schema, props, opts) ==
  WithDefaults(schema,
    IF opts.useDefaults # "false"
      THEN AssignDefaults(schema, props, opts.useDefaults) ELSE props,
    opts)

\* The answer of the compiled validator from the outcome r on an object.
Answer(r, data, heap) ==
  [valid |-> r.errors = <<>>, errors |-> r.errors,
   heap |-> [heap EXCEPT ![data.ref] = r.props]]

\* The compiled validator, called on a value: [valid, errors, heap].  errors
\* is what the call leaves in the validator's errors property: null (written
\* <<>>) when the data is valid, the list of descriptors otherwise.  Only an
\* object can be of type "object"; nothing is coerced to an object.
CompiledValidate(schema, opts, data, heap) ==
  IF data.t # "object"
  THEN [valid |-> FALSE, errors |-> <<ErrorObject("type", "", "")>>, heap |-> heap]
  ELSE Answer(ValidateObject(schema, heap[data.ref], opts), data, heap)

(***************************************************************************)
(* The Validator facade.                                                   *)
(***************************************************************************)
VARIABLES
  pc,          \* "new": no Validator yet; "ready"; "given": the caller holds an
               \* instance; "done": a call has returned; "mutated"
  passed,      \* the options the caller passed to the constructor
  options,     \* the options of the engine instance (this.ajv)
  registry,    \* the engine's schemas by key
  fnErrors,    \* the errors property of the compiled validator: a reference
               \* to an array of lists, 0 for null
  heap,        \* the objects: reference -> properties
  x,           \* the caller's instance (an object is a reference)
  x0,          \* the caller's instance as it was when last made or passed:
               \* [v, props]
  result,      \* the outcome of the last call
  statics,     \* Validator.DEFAULT_OPTIONS and Validator.DEFAULT_FORMATS_OPTIONS:
               \* [options, formats]
  formats,     \* the options of the formats plugin: [passed, options]
  cache,       \* the engine's compiled validators by key; a validator is
               \* the number of the compilation that made it
  compilations,\* how many times the engine has compiled a schema
  lists,       \* the arrays of error descriptors something still refers to:
               \* reference -> descriptors
  log,         \* what an observer of one Validator's calls has noted, and the
               \* parse result the caller has kept; nothing when log.on is FALSE
  stage,       \* the helper layer: "idle" (not in use), "start", "built" (a
               \* helper has returned a fragment), "wrapped" (Nullable has
               \* returned a fragment made from it)
  built,       \* the last helper call: [by, options, item, value]
  wrapped,     \* the fragment Nullable returned
  asked        \* the last call of a detection predicate:
               \* [pred, on, threw, error, value]

facadeVars == <<pc, passed, options, registry, fnErrors, heap, x, x0, result,
                statics, formats, cache, compilations, lists, log>>

helperVars == <<stage, built, wrapped, asked>>

vars == <<pc, passed, options, registry, fnErrors, heap, x, x0, result,
          statics, formats, cache, compilations, lists, log,
          stage, built, wrapped, asked>>

\* this.key
key == "flyyer-variables"

NoResult ==
  [op |-> "none", threw |-> FALSE, error |-> "", data |-> Undefined,
   isValid |-> FALSE, errors |-> 0]

\* The descriptors of the array a reference refers to; none for null.
ErrorsAt(arrays, ref) == IF ref = 0 THEN <<>> ELSE arrays[ref]

\* The engine's lookup of the schema under a key k: nothing when no schema
\* was added under k; else its compiled validator, compiled at the first
\* lookup and cached.  e is the engine's state: [fnErrors, lists, cache,
\* compilations, fn], fn being the validator the last lookup returned.
Compiled(reg, e, k) ==
  [found |-> TRUE, validate |-> reg[k],
   engine |-> [e EXCEPT !.cache = (k :> (e.compilations + 1)) @@ e.cache,
                        !.compilations = e.compilations + 1,
                        !.fn = e.compilations + 1]]

EngineGetSchema(reg, e, k) ==
  IF k \notin DOMAIN reg
  THEN [found |-> FALSE, validate |-> Undefined, engine |-> [e EXCEPT !.fn = 0]]
  ELSE IF k \in DOMAIN e.cache
  THEN [found |-> TRUE, validate |-> reg[k], engine |-> [e EXCEPT !.fn = e.cache[k]]]
  ELSE Compiled(reg, e, k)

\* if (!validate) throw new Error("Missing schema")
Got(g) ==
  IF g.found
  THEN [threw |-> FALSE, error |-> "", validate |-> g.validate, engine |-> g.engine]
  ELSE [threw |-> TRUE, error |-> "Missing schema", validate |-> Undefined,
        engine |-> g.engine]

\* A getSchema that compiles the schema anew, and one that looks under
\* another key.
getSchema_Compiling(reg, e) ==
  Got(IF key \in DOMAIN reg THEN Compiled(reg, e, key) ELSE EngineGetSchema(reg, e, key))

getSchema_OtherKey(reg, e) == Got(EngineGetSchema(reg, e, "variables"))

\* getSchema(): the compiled validator under this.key, or a thrown error.
getSchema(reg, e) == Got(EngineGetSchema(reg, e, key))

\* A parse that hands the caller's own value to the validator.
Clone_Alias(variables, h) ==
  [threw |-> FALSE, error |-> "", value |-> variables, heap |-> h]

\* JSON.parse(JSON.stringify(variables))
Clone(variables, h) == JSONParse(JSONStringify(variables, h), h)

\* A parse that throws on invalid data, and one that forgets the errors.
ParseRecord_Throwing(cloned, valid, errors) ==
  IF valid
  THEN [op |-> "parse", threw |-> FALSE, error |-> "", data |-> cloned,
        isValid |-> valid, errors |-> errors]
  ELSE [op |-> "parse", threw |-> TRUE, error |-> "ValidationError",
        data |-> Undefined, isValid |-> FALSE, errors |-> 0]

ParseRecord_NoErrors(cloned, valid, errors) ==
  [op |-> "parse", threw |-> FALSE, error |-> "", data |-> cloned,
   isValid |-> valid, errors |-> 0]

\* The record parse returns, from the clone, the validator's answer and the
\* validator's errors property as it is after the call.
ParseRecord(cloned, valid, errors) ==
  [op |-> "parse", threw |-> FALSE, error |-> "", data |-> cloned,
   isValid |-> valid, errors |-> errors]

Thrown(op, error) ==
  [op |-> op, threw |-> TRUE, error |-> error, data |-> Undefined,
   isValid |-> FALSE, errors |-> 0]

\* What a call leaves: its result, the heap and the engine's state.
Returned(res, h, e) == [result |-> res, heap |-> h, engine |-> e]

\* The compiled validator sets its errors property at the end of a call: null
\* when the data is valid, else a new array of the call's descriptors.
SetErrors(e, errors) ==
  IF errors = <<>> THEN [e EXCEPT !.fnErrors = 0]
  ELSE [e EXCEPT !.fnErrors = Len(e.lists) + 1, !.lists = Append(e.lists, errors)]

\* A parse that reads the errors property before it calls the validator.
ParseAnswered_Stale(c, r, before, e) ==
  Returned(ParseRecord(c.value, r.valid, before), r.heap, e)

\* parse, once the validator has answered r on the clone c: e is the engine's
\* state after the call, before its errors property before the call.
ParseAnswered(c, r, before, e) ==
  Returned(ParseRecord(c.value, r.valid, e.fnErrors), r.heap, e)

ParseValidated(c, r, e) == ParseAnswered(c, r, e.fnErrors, SetErrors(e, r.errors))

ParseCloned(got, c, h, opts) ==
  IF c.threw THEN Returned(Thrown("parse", c.error), h, got.engine)
  ELSE ParseValidated(c, CompiledValidate(got.validate, opts, c.value, c.heap),
                      got.engine)

ParseWith(got, variables, h, opts) ==
  IF got.threw THEN Returned(Thrown("parse", got.error), h, got.engine)
  ELSE ParseCloned(got, Clone(variables, h), h, opts)

\* parse(variables): [result, heap, engine].
parse(variables, h, reg, opts, e) == ParseWith(getSchema(reg, e), variables, h, opts)

\* A validate that works on a copy.
ValidateTarget_Copy(variables, h) == JSONParse(JSONStringify(variables, h), h)

\* The value validate hands to the compiled validator.
ValidateTarget(variables, h) ==
  [threw |-> FALSE, error |-> "", value |-> variables, heap |-> h]

ValidateAnswered(r, e) ==
  Returned([op |-> "validate", threw |-> FALSE, error |-> "", data |-> Undefined,
            isValid |-> r.valid, errors |-> 0], r.heap, SetErrors(e, r.errors))

ValidateOn(got, t, opts) ==
  ValidateAnswered(CompiledValidate(got.validate, opts, t.value, t.heap), got.engine)

ValidateWith(got, variables, h, opts) ==
  IF got.threw THEN Returned(Thrown("validate", got.error), h, got.engine)
  ELSE ValidateOn(got, ValidateTarget(variables, h), opts)

\* validate(variables): [result, heap, engine].
validate(variables, h, reg, opts, e) ==
  ValidateWith(getSchema(reg, e), variables, h, opts)

(***************************************************************************)
(* The instances a caller passes.                                          *)
(***************************************************************************)
Alphabet == {"2", "f", ".", " "}

RECURSIVE StringsOfLen(_)
StringsOfLen(n) ==
  IF n = 0 THEN {<<>>}
  ELSE {Append(s, c) : s \in StringsOfLen(n - 1), c \in Alphabet}

Strings == UNION {StringsOfLen(n) : n \in 0..MaxStrLen}

Numbers == {Num(n, d) : n \in 0..MaxNum, d \in {0, 5}}

Scalars == {Str(s) : s \in Strings} \cup Numbers \cup {Null, NaN, Bool(TRUE), Bool(FALSE)}

\* The strings of the documentation's examples: "42" and "foo".
FortyTwo == Str(<<"4", "2">>)

Foo == Str(<<"f", "o", "o">>)

\* What a property may hold.
PropValues ==
  Scalars \cup {FortyTwo, Foo, Undefined, Arr(<<>>), Arr(<<Str(<<"2">>)>>), Arr(<<Str(<<"f">>)>>),
                Arr(<<Num(2, 0)>>), Arr(<<Undefined>>), Arr(<<Num(1, 0), Num(2, 0)>>)}

\* What the second declared property and an undeclared property may hold.
FewValues == {Str(<<"f">>), Num(2, 0), Undefined}

\* Longest run of hexadecimal digits tried as a colour.
MaxHexLen == 9

Repeat(c, n) == [i \in 1..n |-> c]

\* The colours of the ColorHex test and of the documentation.
ColorLiterals ==
  {Str(<<"#", "F", "F", "A", "A", "3", "3">>),
   Str(<<"#", "c", "c", "3", "3", "A", "A">>),
   Str(<<"#", "c", "c", "3", "3", "A", "A", "F", "F">>),
   Str(<<"#", "Z", "Z", "Z", "Z", "Z", "Z">>),
   Str(<<"#", "c", "c", "3", "3", "A", "A", "0", "0", "0", "0", "0">>)}

\* What is passed for a colour: the literals, and runs of a digit, lower case
\* without the leading '#' and upper case with it, alone or followed by a
\* letter that is no digit.
ColorStrings ==
  ColorLiterals \cup
    {Str(run[1] \o Repeat(run[2], n) \o last) :
       run \in {<<<<>>, "a">>, <<<<"#">>, "F">>}, n \in 0..MaxHexLen,
       last \in {<<>>, <<"Z">>}}

\* The strings of the Email test and of the documentation, and some others.
Patricio == Str(<<"p", "a", "t", "r", "i", "c", "i", "o", "@", "f", "l", "a", "y", "y", "e", "r", ".", "c", "o", "m">>)

HelloWorld == Str(<<"h", "e", "l", "l", "o", " ", "w", "o", "r", "l", "d">>)

NotAnEmail == Str(<<"n", "o", "t", "-", "a", "n", "-", "e", "m", "a", "i", "l">>)

EmailStrings ==
  {Patricio, HelloWorld, NotAnEmail,
   Str(<<"a", "@", "b">>), Str(<<"@", "b">>), Str(<<"a", "@">>), Str(<<"a", "@", "b", ".", ".", "c">>), Str(<<"a", "@", "-", "b">>)}

\* The strings of the DateTime, Date and Time test, and some others.
TestDate == Str(<<"2", "0", "2", "1", "-", "1", "2", "-", "3", "0">>)

TestTime == Str(<<"2", "0", ":", "2", "0", ":", "3", "9", "+", "0", "0", ":", "0", "0">>)

DateStrings == {TestDate, Str(<<"2", "0", "2", "1", "-", "1", "2", "-", "3">>), Str(<<"3", "0", "-", "1", "2", "-", "2", "0", "2", "1">>), Str(<<"2", "0", "2", "1", "-", "2", "2", "-", "3", "0">>)}

TimeStrings == {TestTime, Str(<<"2", "0", ":", "2", "0">>), Str(<<"2", "3", ":", "5", "9", ":", "6", "0", "Z">>), Str(<<"2", "0", ":", "2", "0", ":", "3", "9", ".", "5", "-", "0", "3", "0", "0">>), Str(<<"3", "0", ":", "2", "0", ":", "3", "9", "Z">>)}

DateTimeStrings ==
  {IsoDateTime, TestDate, TestTime,
   Str(<<"2", "0", "2", "1", "-", "1", "2", "-", "3", "0", "T", "2", "0", ":", "2", "0", ":", "3", "9">>),
   Str(<<"2", "0", "2", "1", "-", "1", "2", "-", "3", "0", " ", "2", "0", ":", "2", "0", ":", "3", "9", "z">>),
   Str(<<"2", "0", "2", "1", "-", "1", "2", "-", "3", "0", "T", "2", "0", ":", "2", "0", ":", "3", "9", ".", "0", "0", "0", "+", "0", "0", ":", "0", "0">>)}

\* The strings passed for a property of the fragment.
FormatValues(fragment) ==
  CASE fragment.format = "color-hex" -> ColorStrings
    [] fragment.format = "email" -> EmailStrings
    [] fragment.format = "date" -> DateStrings
    [] fragment.format = "time" -> TimeStrings
    [] fragment.format = "date-time" -> DateTimeStrings
    [] OTHER -> {}

\* One string that conforms to the fragment's format.
Conforming(fragment) ==
  CASE fragment.format = "date" -> {TestDate}
    [] fragment.format = "time" -> {TestTime}
    [] fragment.format = "date-time" -> {IsoDateTime}
    [] OTHER -> {}

\* A property the caller leaves out.
Absent == Mk("absent", FALSE, 0, 0, <<>>, <<>>, 0, EmptyProps)

\* Longest schema whose first property is tried with every value.
MaxWide == 2

Wide(schema) == Len(schema.keys) > MaxWide

\* What a property with a string format may hold, besides the strings of
\* its format.
SomeValues ==
  FewValues \cup {Null, NaN, Bool(TRUE), Str(<<>>), Str(<<"f", " ">>),
                  Arr(<<Str(<<"f">>)>>), Arr(<<Num(1, 0), Num(2, 0)>>)}

\* What is passed for the first declared property.
FirstValues(schema, fragment) ==
  CASE Wide(schema) -> {Num(2, 0)} \cup FormatValues(fragment)
    [] fragment.format # "" -> SomeValues \cup FormatValues(fragment)
    [] OTHER -> PropValues

\* What is passed for the property k of an object for the schema.  The other
\* declared properties and the undeclared property "extra" hold one of a few
\* values; in a schema of more than MaxWide properties, a string that
\* conforms to the property's format and a letter.
ValuesOf(schema, k) ==
  CASE k = "extra" -> IF Wide(schema) THEN {Str(<<"f">>)} ELSE FewValues
    [] k = schema.keys[1] -> FirstValues(schema, schema.properties[k])
    [] OTHER -> IF Wide(schema) THEN Conforming(schema.properties[k]) ELSE FewValues

\* The objects of the properties ks, each absent or one of its values.
RECURSIVE Instances(_, _)
Instances(schema, ks) ==
  IF ks = <<>> THEN {EmptyProps}
  ELSE {IF v = Absent THEN rest ELSE (Head(ks) :> v) @@ rest :
          v \in ValuesOf(schema, Head(ks)) \cup {Absent},
          rest \in Instances(schema, Tail(ks))}

\* The objects passed to a Validator of the schema.
ObjectsFor(schema) == Instances(schema, Append(schema.keys, "extra"))

\* What is passed that is not an object.
NonObjects == {Undefined, Null, NaN, Str(<<"f">>), Num(2, 0), Bool(TRUE),
               Arr(<<>>), Arr(<<Str(<<"2">>)>>)}

(***************************************************************************)
(* The operations.                                                         *)
(***************************************************************************)
NoBuilt == [by |-> "none", options |-> EmptyProps, item |-> <<>>, value |-> EmptyProps]

NoAnswer == [pred |-> "none", on |-> "none", threw |-> FALSE, error |-> "", value |-> FALSE]

\* A call as the observer notes it.
NoCall == [op |-> "none", valid |-> FALSE]

\* Nothing kept: kept is [has, ref, errors], the reference to the errors of
\* the parse result the caller keeps, and the descriptors it had when kept.
NoKept == [has |-> FALSE, ref |-> 0, errors |-> <<>>]

\* The observer's notes: the calls made so far, the last call and the one
\* before it, the validators getSchema has returned, the result kept, whether
\* the schema was removed from the engine.
NoLog ==
  [on |-> FALSE, calls |-> 0, last |-> NoCall, prev |-> NoCall, fns |-> {},
   kept |-> NoKept, removed |-> FALSE]

\* Most calls observed on one Validator.
MaxCalls == 3

\* No Validator yet.
FacadeStart ==
  /\ pc = "new"
  /\ passed = EmptyProps
  /\ options = EmptyProps
  /\ registry = EmptyProps
  /\ fnErrors = 0
  /\ heap = <<>>
  /\ x = Undefined
  /\ x0 = [v |-> Undefined, props |-> EmptyProps]
  /\ result = NoResult
  /\ statics = [options |-> DEFAULT_OPTIONS, formats |-> DEFAULT_FORMATS_OPTIONS]
  /\ formats = [passed |-> EmptyProps, options |-> EmptyProps]
  /\ cache = EmptyProps
  /\ compilations = 0
  /\ lists = <<>>

FacadeInit == FacadeStart /\ log = NoLog

Init ==
  /\ FacadeInit
  /\ stage = "idle"
  /\ built = NoBuilt
  /\ wrapped = EmptyProps
  /\ asked = NoAnswer

\* The constructor, from the two merges m and f.
Constructed(schema, formatOpts, m, f) ==
  /\ options' = m.merged
  /\ formats' = [passed |-> formatOpts, options |-> f.merged]
  /\ statics' = [options |-> m.defaults, formats |-> f.defaults]
  /\ registry' = (key :> schema)

\* new Validator(schema, opts, formatOpts): the engine is created with the
\* defaults and the caller's options over them, the plugin is added likewise,
\* and the schema is added under this.key.
Construct(schema, opts, formatOpts) ==
  /\ pc = "new"
  /\ passed' = opts
  /\ Constructed(schema, formatOpts, MergeOptions(statics.options, opts),
                 MergeOptions(statics.formats, formatOpts))
  /\ pc' = "ready"
  /\ UNCHANGED <<fnErrors, heap, x, x0, result, cache, compilations, lists, log,
                 stage, built, wrapped, asked>>

\* The caller makes an object to pass.
NewObject(props) ==
  /\ pc = "ready"
  /\ heap' = <<props>>
  /\ x' = Obj(1)
  /\ x0' = [v |-> Obj(1), props |-> props]
  /\ result' = NoResult
  /\ pc' = "given"
  /\ UNCHANGED <<passed, options, registry, fnErrors, statics, formats, cache,
                 compilations, lists, log, stage, built, wrapped, asked>>

\* The caller has a value to pass that is not an object.
NewValue(v) ==
  /\ pc = "ready"
  /\ heap' = <<>>
  /\ x' = v
  /\ x0' = [v |-> v, props |-> EmptyProps]
  /\ result' = NoResult
  /\ pc' = "given"
  /\ UNCHANGED <<passed, options, registry, fnErrors, statics, formats, cache,
                 compilations, lists, log, stage, built, wrapped, asked>>

\* The objects the caller still holds before a call: its instance.
CallerHeap == IF x.t = "object" THEN <<heap[1]>> ELSE <<>>

\* The engine's state before a call.
Engine ==
  [fnErrors |-> fnErrors, lists |-> lists, cache |-> cache,
   compilations |-> compilations, fn |-> 0]

\* The arrays still referred to, and a reference once the others are gone.
Roots(a, b, c) == {a, b, c} \ {0}

Renumber(roots, ref) ==
  IF ref = 0 THEN 0 ELSE Cardinality({q \in roots : q <= ref})

Compacted(arrays, roots) ==
  [i \in 1..Cardinality(roots) |->
     arrays[CHOOSE q \in roots : Cardinality({o \in roots : o <= q}) = i]]

\* The observer's notes after a call that left r.
Logged(l, r, roots) ==
  IF ~l.on THEN l
  ELSE [l EXCEPT !.calls = @ + 1,
                 !.prev = l.last,
                 !.last = [op |-> r.result.op,
                           valid |-> ~r.result.threw /\ r.result.isValid],
                 !.fns = IF r.engine.fn = 0 THEN @ ELSE @ \cup {r.engine.fn},
                 !.kept.ref = Renumber(roots, @)]

\* The state a call leaves; roots are the arrays still referred to: by the
\* validator's errors property, by the result, by the result the caller kept.
LeavesWith(r, roots) ==
  /\ result' = [r.result EXCEPT !.errors = Renumber(roots, @)]
  /\ heap' = r.heap
  /\ fnErrors' = Renumber(roots, r.engine.fnErrors)
  /\ lists' = Compacted(r.engine.lists, roots)
  /\ cache' = r.engine.cache
  /\ compilations' = r.engine.compilations
  /\ log' = Logged(log, r, roots)

Leaves(r) == LeavesWith(r, Roots(r.engine.fnErrors, r.result.errors, log.kept.ref))

\* validator.parse(x)
Parse ==
  /\ pc \in {"given", "done"}
  /\ log.on => log.calls < MaxCalls
  /\ Leaves(parse(x, CallerHeap, registry, options, Engine))
  /\ x0' = [v |-> x, props |-> IF x.t = "object" THEN heap[1] ELSE EmptyProps]
  /\ pc' = "done"
  /\ UNCHANGED <<passed, options, registry, x, statics, formats,
                 stage, built, wrapped, asked>>

\* validator.validate(x)
Validate ==
  /\ pc \in {"given", "done"}
  /\ log.on => log.calls < MaxCalls
  /\ Leaves(validate(x, CallerHeap, registry, options, Engine))
  /\ x0' = [v |-> x, props |-> IF x.t = "object" THEN heap[1] ELSE EmptyProps]
  /\ pc' = "done"
  /\ UNCHANGED <<passed, options, registry, x, statics, formats,
                 stage, built, wrapped, asked>>

\* The caller writes a property of the data parse returned.
MutateData(k, v) ==
  /\ pc = "done"
  /\ result.op = "parse" /\ ~result.threw /\ result.data.t = "object"
  /\ heap' = [heap EXCEPT ![result.data.ref] =
                (k :> v) @@ heap[result.data.ref]]
  /\ pc' = "mutated"
  /\ UNCHANGED <<passed, options, registry, fnErrors, x, x0, result, statics,
                 formats, cache, compilations, lists, log,
                 stage, built, wrapped, asked>>

\* The state once the caller has let go of the result.
Released(roots) ==
  /\ fnErrors' = Renumber(roots, fnErrors)
  /\ lists' = Compacted(lists, roots)
  /\ log' = [log EXCEPT !.kept.ref = Renumber(roots, @)]

\* The caller is done with the instance and the result.
Release ==
  /\ pc \in {"done", "mutated"}
  /\ heap' = <<>>
  /\ x' = Undefined
  /\ x0' = [v |-> Undefined, props |-> EmptyProps]
  /\ result' = NoResult
  /\ Released(Roots(fnErrors, 0, log.kept.ref))
  /\ pc' = "ready"
  /\ UNCHANGED <<passed, options, registry, statics, formats, cache, compilations,
                 stage, built, wrapped, asked>>

Next ==
  \/ \E schema \in Schemas, opts \in CallerOptions : Construct(schema, opts, EmptyProps)
  \/ \E props \in (IF pc = "ready" THEN ObjectsFor(registry[key]) ELSE {}) :
       NewObject(props)
  \/ \E v \in NonObjects : NewValue(v)
  \/ Parse
  \/ Validate
  \/ \E v \in {Str(<<"f">>)} : MutateData("title", v)
  \/ Release

Spec == Init /\ [][Next]_vars

\* The same operations on a Validator of a schema with string formats or
\* Nullable.
FormatNext ==
  \/ \E schema \in FormatSchemas, opts \in CallerOptions :
       Construct(schema, opts, EmptyProps)
  \/ \E props \in (IF pc = "ready" THEN ObjectsFor(registry[key]) ELSE {}) :
       NewObject(props)
  \/ \E v \in NonObjects : NewValue(v)
  \/ Parse
  \/ Validate
  \/ \E v \in {Str(<<"f">>)} : MutateData("title", v)
  \/ Release

FormatSpec == Init /\ [][FormatNext]_vars

(***************************************************************************)
(* Construction alone, with every choice of options.                       *)
(***************************************************************************)
\* The caller lets go of the Validator.
Discard ==
  /\ pc = "ready"
  /\ pc' = "new"
  /\ passed' = EmptyProps
  /\ options' = EmptyProps
  /\ registry' = EmptyProps
  /\ formats' = [passed |-> EmptyProps, options |-> EmptyProps]
  /\ UNCHANGED <<fnErrors, heap, x, x0, result, statics, cache, compilations,
                 lists, log, stage, built, wrapped, asked>>

OptionsNext ==
  \/ \E schema \in Schemas \cup FormatSchemas, opts \in CallerOptions,
        formatOpts \in CallerFormatOptions : Construct(schema, opts, formatOpts)
  \/ Discard

OptionsSpec == Init /\ [][OptionsNext]_vars

(***************************************************************************)
(* One Validator under observation: up to MaxCalls calls are noted, and    *)
(* the caller may keep one parse result while it goes on.                  *)
(***************************************************************************)
CallsInit ==
  /\ FacadeStart
  /\ log = [NoLog EXCEPT !.on = TRUE]
  /\ stage = "idle"
  /\ built = NoBuilt
  /\ wrapped = EmptyProps
  /\ asked = NoAnswer

\* The caller keeps the record the last parse returned.
Keep ==
  /\ log.on /\ ~log.kept.has
  /\ pc = "done" /\ result.op = "parse" /\ ~result.threw
  /\ log' = [log EXCEPT !.kept = [has |-> TRUE, ref |-> result.errors,
                                  errors |-> ErrorsAt(lists, result.errors)]]
  /\ UNCHANGED <<pc, passed, options, registry, fnErrors, heap, x, x0, result,
                 statics, formats, cache, compilations, lists,
                 stage, built, wrapped, asked>>

\* validator.ajv.removeSchema(validator.key): the engine forgets the schema
\* and its compiled validator.
RemoveSchema ==
  /\ log.on
  /\ pc = "ready" /\ key \in DOMAIN registry
  /\ registry' = [k \in (DOMAIN registry) \ {key} |-> registry[k]]
  /\ cache' = [k \in (DOMAIN cache) \ {key} |-> cache[k]]
  /\ log' = [log EXCEPT !.removed = TRUE]
  /\ UNCHANGED <<pc, passed, options, fnErrors, heap, x, x0, result, statics,
                 formats, compilations, lists, stage, built, wrapped, asked>>

\* The objects passed to the Validator under observation.
CallObjects ==
  {EmptyProps,
   [number |-> Str(<<"2">>)],
   [number |-> Foo],
   [number |-> Num(2, 0), extra |-> Str(<<"f">>)],
   [title |-> Str(<<"f">>)],
   [title |-> Str(<<"f">>), description |-> Arr(<<Num(1, 0), Num(2, 0)>>)],
   [description |-> Arr(<<Num(1, 0), Num(2, 0)>>), extra |-> Str(<<"f">>)]}

CallsNext ==
  \/ \E schema \in {SchemaNumber, SchemaTitleStrict},
        opts \in {EmptyProps, [allErrors |-> "false"]} :
       Construct(schema, opts, EmptyProps)
  \/ \E props \in CallObjects : NewObject(props)
  \/ \E v \in {Undefined, Num(2, 0)} : NewValue(v)
  \/ Parse
  \/ Validate
  \/ Keep
  \/ RemoveSchema
  \/ Release

CallsSpec == CallsInit /\ [][CallsNext]_vars

(***************************************************************************)
(* The helper layer in use: a caller builds a fragment with a helper, may  *)
(* wrap it with Nullable, and asks a detection predicate about a fragment  *)
(* or about null or undefined.                                             *)
(***************************************************************************)
FormatHelpers == {"URL", "Image", "Font", "Email", "Date", "Time", "DateTime", "ColorHex"}

\* Variable[name](options)
Helper(name, opts) ==
  CASE name = "URL" -> URL(opts)
    [] name = "Image" -> Image(opts)
    [] name = "Font" -> Font(opts)
    [] name = "Email" -> Email(opts)
    [] name = "Date" -> Date(opts)
    [] name = "Time" -> Time(opts)
    [] name = "DateTime" -> DateTime(opts)
    [] name = "ColorHex" -> ColorHex(opts)

\* The semantic markers a caller may name in the options: none, a format, a
\* media type, a type, an enum list, or a type and an enum list.
MarkerOptions ==
  {EmptyProps,
   [format |-> "email"],
   [format |-> URI_REFERENCE],
   [contentMediaType |-> MIME_IMAGE],
   [contentMediaType |-> MIME_FONT],
   [type |-> "number"],
   [enum |-> <<<<"Z">>>>],
   [type |-> "number", enum |-> <<<<"Z">>>>]}

\* The other options a caller passes.
PlainOptions ==
  {EmptyProps,
   [title |-> "Title"],
   [default |-> Str(<<"X">>)],
   [title |-> "Title", default |-> Str(<<"X">>)]}

HelperOptions == {Spread(plain, markers) : plain \in PlainOptions, markers \in MarkerOptions}

\* Most keys of a mapping passed to EnumKeys.
MaxKeys == 2

\* The keys of the mappings: names, the numbers of a reverse mapping, and
\* the empty name.
KeyNames == {<<"X">>, <<"Y">>, <<"0">>, <<"1">>, <<"2", ".", "5">>, <<>>}

\* A key that is an array index.
IntegerLike(k) == k # <<>> /\ AllDigits(k)

\* Object.keys: the integer keys first, in ascending order, then the others in
\* the order they were written.
IterationOrder(keys) ==
  \A i, j \in 1..Len(keys) : i < j =>
    /\ keys[i] # keys[j]
    /\ IntegerLike(keys[j]) =>
         (IntegerLike(keys[i]) /\ DigitsVal(keys[i]) < DigitsVal(keys[j]))

EnumItems ==
  {keys \in UNION {[1..n -> KeyNames] : n \in 0..MaxKeys} : IterationOrder(keys)}

HelperInit ==
  /\ FacadeInit
  /\ stage = "start"
  /\ built = NoBuilt
  /\ wrapped = EmptyProps
  /\ asked = NoAnswer

\* V[name](options), for a format helper.
Build(name, opts) ==
  /\ stage = "start"
  /\ built' = [by |-> name, options |-> opts, item |-> <<>>, value |-> Helper(name, opts)]
  /\ stage' = "built"
  /\ UNCHANGED <<wrapped, asked>>
  /\ UNCHANGED facadeVars

\* V.EnumKeys(item, options)
BuildEnumKeys(item, opts) ==
  /\ stage = "start"
  /\ built' = [by |-> "EnumKeys", options |-> opts, item |-> item,
               value |-> EnumKeys(item, opts)]
  /\ stage' = "built"
  /\ UNCHANGED <<wrapped, asked>>
  /\ UNCHANGED facadeVars

\* V.Nullable(fragment): the object literal is a new object; the fragment it
\* was made from is not written.
Wrap ==
  /\ stage = "built"
  /\ wrapped' = Nullable(built.value)
  /\ stage' = "wrapped"
  /\ UNCHANGED <<built, asked>>
  /\ UNCHANGED facadeVars

\* Is[pred](variable)
IsCall(pred, variable) ==
  CASE pred = "Nullable" -> IsNullable(variable)
    [] pred = "Image" -> IsImage(variable)
    [] pred = "URL" -> IsURL(variable)
    [] pred = "Font" -> IsFont(variable)

\* What the predicate is asked about.
Argument(on) ==
  CASE on = "built" -> JObj(built.value)
    [] on = "wrapped" -> JObj(wrapped)
    [] on = "null" -> Null
    [] on = "undefined" -> Undefined

Answered(pred, on, r) ==
  [pred |-> pred, on |-> on, threw |-> r.threw, error |-> r.error, value |-> r.value]

Ask(pred, on) ==
  /\ stage \in {"start", "built", "wrapped"}
  /\ asked = NoAnswer
  /\ on = "built" => stage \in {"built", "wrapped"}
  /\ on = "wrapped" => stage = "wrapped"
  /\ asked' = Answered(pred, on, IsCall(pred, Argument(on)))
  /\ UNCHANGED <<stage, built, wrapped>>
  /\ UNCHANGED facadeVars

HelperNext ==
  \/ \E name \in FormatHelpers, opts \in HelperOptions : Build(name, opts)
  \/ \E item \in EnumItems, opts \in HelperOptions : BuildEnumKeys(item, opts)
  \/ Wrap
  \/ \E pred \in {"Nullable", "Image", "URL", "Font"},
        on \in {"built", "wrapped", "null", "undefined"} : Ask(pred, on)

HelperSpec == HelperInit /\ [][HelperNext]_vars

(***************************************************************************)
(* Properties of the facade.                                               *)
(***************************************************************************)
\* The descriptors the last result's errors refer to, and those the
\* validator's errors property refers to.
Errors == ErrorsAt(lists, result.errors)

FnErrors == ErrorsAt(lists, fnErrors)

\* A parse call has returned a record (the caller may have written to its
\* data since).
ParseReturned == pc \in {"done", "mutated"} /\ result.op = "parse" /\ ~result.threw

\* A call has just returned and nothing was touched since.
JustParsed == pc = "done" /\ result.op = "parse"

JustValidated == pc = "done" /\ result.op = "validate"

\* The caller passed no value for the option: the default is in force.
DefaultInForce(name) == pc # "new" /\ name \notin DOMAIN passed

\* The properties of the data a parse returned, when the data is an object.
DataProps == heap[result.data.ref]

\* C1: parse never throws, whatever the instance passed (undefined included):
\* every parse call returns a record.
C1_ParseNeverThrows == result.op = "parse" => ~result.threw

\* C2: parse leaves the caller's instance as it was before the call, and the
\* data it returns is another object than the caller's, so that a later write
\* to the data does not show through the instance.
C2_ParseLeavesInstance ==
  ParseReturned =>
    /\ x = x0.v
    /\ x.t = "object" => heap[x.ref] = x0.props
    /\ (x.t = "object" /\ result.data.t = "object") => result.data.ref # x.ref

\* C2's case: parse of an object that the engine had to change (the data
\* differs from the instance), and the caller has since written to the data.
C2_Witness ==
  /\ pc = "mutated" /\ result.op = "parse" /\ x.t = "object"
  /\ result.data.t = "object"
  /\ "title" \notin DOMAIN x0.props
  /\ "title" \in DOMAIN DataProps
  /\ "number" \in DOMAIN x0.props /\ x0.props["number"] = Str(<<"2">>)
  /\ DataProps["number"] = Num(2, 0)

\* C9: parse called with no argument, on a Validator of
\* Object({number: Optional(Integer({default: 32}))}) built with the default
\* options, returns a record whose data.number is 32.
C9_ParseNoArgument ==
  (JustParsed /\ x0.v = Undefined /\ registry[key] = SchemaNumber /\ passed = EmptyProps)
    => /\ ~result.threw
       /\ result.data.t = "object"
       /\ "number" \in DOMAIN DataProps
       /\ DataProps["number"] = Num(32, 0)

\* The schema the Validator was built from, and a property read (data[k]).
TheSchema == registry[key]

Declared == DOMAIN TheSchema.properties

Get(props, k) == IF k \in DOMAIN props THEN props[k] ELSE Undefined

\* The instance passed to the last call was an object.
ObjectPassed == x0.v.t = "object"

\* C3: validate works in place: after validate(x) has returned true, x itself
\* holds the coerced values (each declared property the instance provided is
\* of its declared type, or null if it is nullable), the defaults of the properties it lacked, and no
\* property the schema forbids; no copy was made; {number: "2"} against an
\* integer property ends as {number: 2}.
C3_ValidateInPlace ==
  (JustValidated /\ ~result.threw /\ result.isValid /\ ObjectPassed) =>
    /\ Len(heap) = 1
    /\ \A k \in Declared :
         /\ ~Missing(x0.props, k) =>
              CheckDataTypes(SchemaTypes(TheSchema.properties[k]), Get(heap[x.ref], k), FALSE)
         /\ (Missing(x0.props, k) /\ TheSchema.properties[k].hasDefault
               /\ DefaultInForce("useDefaults")) =>
              Get(heap[x.ref], k) = TheSchema.properties[k].default
    /\ TheSchema.additionalProperties = "false" => DOMAIN heap[x.ref] \subseteq Declared
    /\ (TheSchema = SchemaNumber /\ x0.props = [number |-> Str(<<"2">>)]) =>
         heap[x.ref] = [number |-> Num(2, 0)]

\* C3's case: validate({number: "2"}) has returned true and the caller's
\* object holds the integer 2.
C3_Witness ==
  /\ JustValidated /\ result.isValid /\ ObjectPassed
  /\ TheSchema = SchemaNumber
  /\ x0.props = [number |-> Str(<<"2">>)]
  /\ heap[x.ref] = [number |-> Num(2, 0)]

\* No error descriptor is about property k.
NoErrorAbout(k) ==
  \A i \in 1..Len(Errors) :
    Errors[i].instancePath # k /\ Errors[i].property # k

\* C4: with the default useDefaults, parse applies a schema default exactly to
\* the properties the instance lacks (a property holding undefined is lacking,
\* as it is for JSON): the data holds the default and no error is about that
\* property; a property the instance provides, valid or not, is not replaced by
\* the default (the data holds the default only if the value provided is, or
\* is coerced to, the default); parse({}) against number: Optional(Integer({default: 32}))
\* gives data {number: 32} and isValid true.
C4_DefaultsOnlyWhenAbsent ==
  (JustParsed /\ ObjectPassed /\ DefaultInForce("useDefaults")) =>
    /\ ~result.threw /\ result.data.t = "object"
    /\ \A k \in Declared : TheSchema.properties[k].hasDefault =>
         /\ Missing(x0.props, k) =>
              /\ Get(DataProps, k) = TheSchema.properties[k].default
              /\ NoErrorAbout(k)
         /\ (~Missing(x0.props, k)
               /\ Get(DataProps, k) = TheSchema.properties[k].default) =>
              ValidateValue(TheSchema.properties[k], JsonProp(x0.props[k]), options).value
                = TheSchema.properties[k].default
    /\ (TheSchema = SchemaNumber /\ x0.props = EmptyProps) =>
         (DataProps = [number |-> Num(32, 0)] /\ result.isValid)

\* C4's case: parse({}) has filled in the default 32.
C4_Witness ==
  /\ JustParsed /\ ObjectPassed /\ DefaultInForce("useDefaults")
  /\ TheSchema = SchemaNumber
  /\ x0.props = EmptyProps
  /\ DataProps = [number |-> Num(32, 0)]
  /\ result.isValid

\* The largest integer whose decimal spelling is tried.
MaxSpelled == 42

\* C5: with the default coerceTypes, a string that spells an integer is
\* coerced to that integer for an integer-typed property: parse({number: "2"})
\* returns data {number: 2} with isValid true, and parse({number: "42"})
\* returns data.number 42.
C5_IntegerStringCoerced ==
  (JustParsed /\ ObjectPassed /\ DefaultInForce("coerceTypes")
     /\ TheSchema \in {SchemaNumber, SchemaCount}
     /\ DOMAIN x0.props = {TheSchema.keys[1]}) =>
    \A n \in 0..MaxSpelled :
      x0.props[TheSchema.keys[1]] = Str(NatToString(n)) =>
        /\ ~result.threw /\ result.isValid
        /\ DataProps = (TheSchema.keys[1] :> Num(n, 0))

\* C5's case: parse({number: "42"}) has returned the number 42.
C5_Witness ==
  /\ JustParsed /\ ObjectPassed /\ DefaultInForce("coerceTypes")
  /\ TheSchema = SchemaNumber
  /\ x0.props = [number |-> FortyTwo]
  /\ result.isValid
  /\ DataProps = [number |-> Num(42, 0)]

\* A string that holds a letter: it spells no number.
HoldsLetter(v) == v.t = "string" /\ \E i \in 1..Len(v.s) : v.s[i] \in {"f", "o"}

IntegerKey == TheSchema.keys[1]

\* C6: a value that cannot be coerced is reported, not thrown and not
\* replaced: for an integer property given "foo" (or any string holding a
\* letter), parse returns isValid false, a non-empty errors list and data
\* whose property is still that string; validate returns false and leaves the
\* property of the caller's object equal to it.
C6_UncoercibleKept ==
  (pc = "done" /\ ObjectPassed /\ TheSchema.properties[IntegerKey].type = "integer"
     /\ HoldsLetter(Get(x0.props, IntegerKey))) =>
    /\ ~result.threw
    /\ ~result.isValid
    /\ result.op = "parse" =>
         /\ Errors # <<>>
         /\ result.data.t = "object"
         /\ Get(DataProps, IntegerKey) = x0.props[IntegerKey]
    /\ result.op = "validate" => Get(heap[x.ref], IntegerKey) = x0.props[IntegerKey]

\* C6's case: parse({number: "foo"}) has returned isValid false with "foo"
\* still in the data.
C6_Witness ==
  /\ JustParsed /\ ObjectPassed
  /\ TheSchema = SchemaNumber
  /\ Get(x0.props, "number") = Foo
  /\ ~result.threw /\ ~result.isValid /\ Errors # <<>>
  /\ Get(DataProps, "number") = Foo

\* C7: with the default removeAdditional and allErrors, undeclared properties
\* never make an instance invalid: every error is about a declared property;
\* with additionalProperties false the data holds declared properties only;
\* with additionalProperties true or unset every undeclared property is in
\* the data with its (JSON) value.
C7_AdditionalProperties ==
  (JustParsed /\ ObjectPassed /\ DefaultInForce("removeAdditional")
     /\ DefaultInForce("allErrors")) =>
    /\ ~result.threw /\ result.data.t = "object"
    /\ \A i \in 1..Len(Errors) :
         /\ Errors[i].keyword # "additionalProperties"
         /\ Errors[i].instancePath \in Declared
              \/ Errors[i].property \in Declared
    /\ TheSchema.additionalProperties = "false" => DOMAIN DataProps \subseteq Declared
    /\ TheSchema.additionalProperties # "false" =>
         \A k \in (DOMAIN x0.props) \ Declared :
           Get(DataProps, k) = JsonProp(x0.props[k])

\* C7's case: parse({title, extra}) against additionalProperties false is
\* valid and has stripped extra.
C7_Witness ==
  /\ JustParsed /\ ObjectPassed /\ DefaultInForce("removeAdditional")
  /\ TheSchema = SchemaTitleStrict
  /\ x0.props = [title |-> Str(<<"f">>), extra |-> Str(<<"f">>)]
  /\ result.isValid
  /\ DataProps = [title |-> Str(<<"f">>)]

\* C8: in every record parse returns, isValid is true exactly when errors is
\* empty or absent.
C8_ValidIffNoErrors == ParseReturned => (result.isValid <=> Errors = <<>>)

\* C8's case: a parse has returned an invalid record, with its errors.
C8_Witness == JustParsed /\ ~result.threw /\ ~result.isValid /\ Len(Errors) >= 1

\* C10: for Object({count: Integer({default: 10})}), count being required, and
\* a Validator built with no options: validate on an instance that lacks count
\* returns true and leaves count equal to 10; on an instance with count "2" it
\* returns true and leaves count equal to the number 2.
C10_RequiredWithDefault ==
  (JustValidated /\ ObjectPassed /\ TheSchema = SchemaCount /\ passed = EmptyProps) =>
    /\ "count" \in TheSchema.required
    /\ Missing(x0.props, "count") =>
         (result.isValid /\ Get(heap[x.ref], "count") = Num(10, 0))
    /\ Get(x0.props, "count") = Str(<<"2">>) =>
         (result.isValid /\ Get(heap[x.ref], "count") = Num(2, 0))

\* C10's case: validate({}) has returned true and count is 10.
C10_Witness ==
  /\ JustValidated /\ ObjectPassed /\ TheSchema = SchemaCount /\ passed = EmptyProps
  /\ x0.props = EmptyProps
  /\ result.isValid
  /\ heap[x.ref] = [count |-> Num(10, 0)]

(***************************************************************************)
(* Properties of the helper layer (under HelperSpec).                      *)
(***************************************************************************)
\* A format helper has returned a fragment.
HelperBuilt == stage \in {"built", "wrapped"} /\ built.by \in FormatHelpers

\* The options name one of the semantic markers.
NamesMarker(opts) == (DOMAIN opts) \cap {"type", "format", "contentMediaType"} # {}

\* The table of the helpers: the format and the media type each one fixes
\* ("" is none).
FormatOf ==
  [URL |-> "uri-reference", Image |-> "uri-reference", Font |-> "", Email |-> "email",
   Date |-> "date", Time |-> "time", DateTime |-> "date-time", ColorHex |-> "color-hex"]

MediaTypeOf ==
  [URL |-> "", Image |-> "image/*", Font |-> "font/*", Email |-> "",
   Date |-> "", Time |-> "", DateTime |-> "", ColorHex |-> ""]

\* The fragment holds the marker with this value, or lacks it when the value
\* is "".
Marks(fragment, name, value) ==
  IF value = "" THEN name \notin DOMAIN fragment
  ELSE name \in DOMAIN fragment /\ fragment[name] = value

\* Every option of the caller is in the fragment, with the caller's value.
KeepsOptions(fragment, opts, except) ==
  \A k \in (DOMAIN opts) \ except : k \in DOMAIN fragment /\ fragment[k] = opts[k]

C12_FontFormat ==
  (HelperBuilt /\ built.by = "Font" /\ ~NamesMarker(built.options)) =>
    /\ Marks(built.value, "type", "string")
    /\ Marks(built.value, "format", "uri-reference")
    /\ Marks(built.value, "contentMediaType", "font/*")

\* C13 as stated: a caller who names format, type or contentMediaType in the
\* options of a format helper gets a fragment with the caller's value for it.
C13_CallerOverridesMarkers ==
  HelperBuilt =>
    KeepsOptions(built.value, built.options, (DOMAIN built.options) \
                   {"format", "type", "contentMediaType"})

\* C13, amended: the helper's format and media type are applied first and the
\* caller's options second, so a caller who names format or contentMediaType
\* gets the caller's value; type and kind are applied last: the type of the
\* fragment is "string" whatever the caller names.
C13_CallerOverridesFormat ==
  HelperBuilt =>
    /\ KeepsOptions(built.value, built.options, (DOMAIN built.options) \
                      {"format", "contentMediaType"})
    /\ Marks(built.value, "type", "string")
    /\ Marks(built.value, "kind", StringKind)

\* C13's case: URL called with the format "email".
C13_Witness ==
  /\ HelperBuilt /\ built.by = "URL"
  /\ built.options = [format |-> "email"]
  /\ built.value = [format |-> "email", kind |-> StringKind, type |-> "string"]

\* A key that spells a number: digits, with at most one decimal point.
PurelyNumeric(k) ==
  /\ \E i \in 1..Len(k) : IsDigit(k[i])
  /\ \A i \in 1..Len(k) : IsDigit(k[i]) \/ k[i] = "."
  /\ Cardinality({i \in 1..Len(k) : k[i] = "."}) <= 1

NotNumeric(k) == ~PurelyNumeric(k)

\* C14: the enum list of the fragment EnumKeys returns is the keys of the
\* mapping that are not purely numeric, in the mapping's order: every numeric
\* key is dropped, every other key is kept.
C14_EnumKeysFiltered ==
  (stage \in {"built", "wrapped"} /\ built.by = "EnumKeys") =>
    /\ "enum" \in DOMAIN built.value
    /\ built.value["enum"] = SelectSeq(built.item, NotNumeric)

\* C15: the caller cannot override the type and the enum of an EnumKeys
\* fragment: whatever the options, also when they name type or enum, the type
\* is "string" and the enum list is the one computed from the mapping; every
\* other caller option is in the fragment unchanged.
C15_EnumKeysFixed ==
  (stage \in {"built", "wrapped"} /\ built.by = "EnumKeys") =>
    /\ Marks(built.value, "type", "string")
    /\ "enum" \in DOMAIN built.value
    /\ built.value["enum"] = EnumKeys(built.item, EmptyProps)["enum"]
    /\ \A i \in 1..Len(built.value["enum"]) :
         \E j \in 1..Len(built.item) : built.item[j] = built.value["enum"][i]
    /\ KeepsOptions(built.value, built.options, {"type", "enum"})

\* C15's case: EnumKeys of {Y, X} called with a type, an enum list and a
\* default.
C15_Witness ==
  /\ stage = "built" /\ built.by = "EnumKeys"
  /\ built.item = <<<<"Y">>, <<"X">>>>
  /\ built.options = [default |-> Str(<<"X">>), type |-> "number", enum |-> <<<<"Z">>>>]
  /\ built.value = [default |-> Str(<<"X">>), kind |-> EnumKind, type |-> "string",
                    enum |-> <<<<"Y">>, <<"X">>>>]

\* A predicate was asked about null or undefined.
AskedNullish == asked.on \in {"null", "undefined"}

\* C16 as stated: on null or undefined Is.URL and Is.Font fail with the
\* argument-missing error, and Is.Nullable and Is.Image return false.
C16_NullishAsymmetry ==
  AskedNullish =>
    /\ asked.pred \in {"URL", "Font"} =>
         (asked.threw /\ asked.error = "TypeError: Missing argument")
    /\ asked.pred \in {"Nullable", "Image"} => (~asked.threw /\ asked.value = FALSE)

\* C16, amended: on null or undefined none of the four predicates returns:
\* Is.URL, Is.Font and Is.Image (which asks Is.URL first) fail with the
\* argument-missing error, Is.Nullable with the TypeError of reading a
\* property of null or undefined.
C16_NullishThrows ==
  AskedNullish =>
    /\ asked.threw
    /\ asked.pred \in {"URL", "Font", "Image"} => asked.error = "TypeError: Missing argument"
    /\ asked.pred = "Nullable" => asked.error = "TypeError: Cannot read properties"

\* C16's case: Is.Image(null) has thrown.
C16_Witness ==
  /\ asked.pred = "Image" /\ asked.on = "null"
  /\ asked.threw /\ asked.error = "TypeError: Missing argument"

\* A predicate was asked about the fragment a format helper returned.
AskedBuilt == asked.on = "built" /\ built.by \in FormatHelpers

\* The (format, contentMediaType) pair of a fragment.
MarkerPair(fragment) ==
  <<IF "format" \in DOMAIN fragment THEN fragment["format"] ELSE "",
    IF "contentMediaType" \in DOMAIN fragment THEN fragment["contentMediaType"] ELSE "">>

C18_NullableRoundTrip ==
  (stage = "wrapped" /\ "nullable" \notin DOMAIN built.value) =>
    /\ (asked.pred = "Nullable" /\ asked.on = "wrapped") =>
         (~asked.threw /\ asked.value = TRUE)
    /\ (asked.pred = "Nullable" /\ asked.on = "built") =>
         (~asked.threw /\ asked.value = FALSE)
    /\ DOMAIN wrapped = (DOMAIN built.value) \cup {"nullable"}
    /\ \A k \in DOMAIN built.value : wrapped[k] = built.value[k]
    /\ built.by \in FormatHelpers => built.value = Helper(built.by, built.options)
    /\ built.by = "EnumKeys" => built.value = EnumKeys(built.item, built.options)

\* C18's case: after Nullable(Image()), Is.Nullable of the image fragment is
\* false and the fragment returned carries the flag.
C18_Witness ==
  /\ stage = "wrapped" /\ built.by = "Image" /\ built.options = EmptyProps
  /\ asked.pred = "Nullable" /\ asked.on = "built" /\ asked.value = FALSE
  /\ wrapped = [contentMediaType |-> "image/*", format |-> "uri-reference",
                kind |-> StringKind, type |-> "string", nullable |-> TRUE]

(***************************************************************************)
(* Properties of nullable properties and of the color-hex format (under    *)
(* Spec).                                                                  *)
(***************************************************************************)
\* The properties the schemas declare with Nullable.
NullableKeys ==
  CASE TheSchema = SchemaBackground -> {"background", "tint"}
    [] TheSchema = SchemaNullableCount -> {"count"}
    [] OTHER -> {}

\* The object the last call worked on, as the call left it: the data of a
\* parse, the caller's own object after a validate.
After == IF result.op = "parse" THEN heap[result.data.ref] ELSE heap[x.ref]

\* No error of the last call is about property k.
Accepted(k) ==
  \A i \in 1..Len(FnErrors) : FnErrors[i].instancePath # k /\ FnErrors[i].property # k

\* A call on an object has returned, the Validator having the default
\* useDefaults.
CalledOnObject ==
  /\ pc = "done" /\ ~result.threw /\ ObjectPassed
  /\ DefaultInForce("useDefaults")

\* C19 as stated: a property declared with Nullable stays required and accepts
\* null: an instance whose property is null has no error about it and keeps
\* the null, and an instance that lacks the property is invalid.
C19_NullableRequired ==
  CalledOnObject =>
    \A k \in NullableKeys :
      /\ Get(x0.props, k) = Null => (Accepted(k) /\ Get(After, k) = Null)
      /\ Missing(x0.props, k) => ~result.isValid

\* C19, amended: Nullable leaves the property as required as it was and makes
\* it accept null: an instance whose property is null has no error about it
\* and keeps the null (it is not coerced); an instance that lacks the property
\* is invalid, with a "required" error, when the fragment is not Optional and
\* has no default; when it is Optional or has a default (which is filled in)
\* no error is about the property.
C19_NullableKeepsRequired ==
  CalledOnObject =>
    \A k \in NullableKeys :
      /\ TheSchema.properties[k].nullable
      /\ k \in TheSchema.required <=> TheSchema.properties[k].modifier # "Optional"
      /\ Get(x0.props, k) = Null => (Accepted(k) /\ Get(After, k) = Null)
      /\ (Missing(x0.props, k) /\ k \in TheSchema.required
            /\ ~TheSchema.properties[k].hasDefault) =>
           /\ ~result.isValid
           /\ \E i \in 1..Len(FnErrors) :
                FnErrors[i].keyword = "required" /\ FnErrors[i].property = k
      /\ (Missing(x0.props, k)
            /\ (k \notin TheSchema.required \/ TheSchema.properties[k].hasDefault)) =>
           Accepted(k)

\* C19's case: parse({background: null}) is valid and the data keeps the null.
C19_Witness ==
  /\ JustParsed /\ CalledOnObject /\ TheSchema = SchemaBackground
  /\ x0.props = [background |-> Null]
  /\ result.isValid
  /\ After = [background |-> Null]

\* The characters that are hexadecimal digits, in either case.
HexChars == {"0", "1", "2", "3", "4", "5", "6", "7", "8", "9",
             "a", "b", "c", "d", "e", "f", "A", "B", "C", "D", "E", "F"}

\* An optional '#', then exactly 3, 4, 6 or 8 hexadecimal digits.
IsHexColor(s) ==
  \E n \in {3, 4, 6, 8} :
    /\ Len(s) = n \/ (Len(s) = n + 1 /\ s[1] = "#")
    /\ \A i \in (Len(s) - n + 1)..Len(s) : s[i] \in HexChars

\* A call on an object whose color is a string has returned, the Validator
\* having the default useDefaults (with "empty" the empty string is replaced
\* by the default).
ColorPassed ==
  /\ pc = "done" /\ ~result.threw /\ ObjectPassed /\ TheSchema = SchemaColor
  /\ DefaultInForce("useDefaults")
  /\ Get(x0.props, "color").t = "string"

\* C20: a string given for a property of format "color-hex" is valid exactly
\* when it is an optional '#' followed by exactly 3, 4, 6 or 8 hexadecimal
\* digits of either case: "#FFAA33", "#cc33AA" and "#cc33AAFF" are valid,
\* "#ZZZZZZ" and "#cc33AA00000" are not; whether valid or not the value stays
\* the string it was; an instance with nothing but the color is valid exactly
\* when the color is.
C20_ColorHex ==
  ColorPassed =>
    /\ Accepted("color") <=> IsHexColor(x0.props["color"].s)
    /\ Get(After, "color") = x0.props["color"]
    /\ DOMAIN x0.props = {"color"} => (result.isValid <=> Accepted("color"))
    /\ x0.props["color"] \in
         {Str(<<"#", "F", "F", "A", "A", "3", "3">>),
          Str(<<"#", "c", "c", "3", "3", "A", "A">>),
          Str(<<"#", "c", "c", "3", "3", "A", "A", "F", "F">>)} => Accepted("color")
    /\ x0.props["color"] \in
         {Str(<<"#", "Z", "Z", "Z", "Z", "Z", "Z">>),
          Str(<<"#", "c", "c", "3", "3", "A", "A", "0", "0", "0", "0", "0">>)} =>
           ~Accepted("color")

\* C20's case: parse({color: "#cc33AA"}) is valid and returns the string.
C20_Witness ==
  /\ JustParsed /\ ColorPassed
  /\ x0.props = [color |-> Str(<<"#", "c", "c", "3", "3", "A", "A">>)]
  /\ result.isValid
  /\ After = [color |-> Str(<<"#", "c", "c", "3", "3", "A", "A">>)]

(***************************************************************************)
(* Properties of the plugin's formats, of getSchema, of the options and of *)
(* sequences of calls.                                                     *)
(***************************************************************************)
\* A call on an object has returned.
Called == pc = "done" /\ ~result.threw /\ ObjectPassed

\* The format of the declared property k.
FormatOfKey(k) == TheSchema.properties[k].format

\* The strings the tests and the documentation give as conforming.
ConformingExample(format, v) ==
  \/ format = "email" /\ v = Patricio
  \/ format = "date" /\ v = TestDate
  \/ format = "time" /\ v = TestTime
  \/ format = "date-time" /\ v = IsoDateTime

\* C21: a string property built with Email, Date, Time or DateTime is checked
\* against its format by parse and by validate: the emails "hello world" and
\* "not-an-email" are invalid, "patricio@flayyer.com", the date "2021-12-30",
\* the time "20:20:39+00:00" and an ISO date-time are valid and stay the
\* strings they were; an instance of nothing but conforming values is valid.
C21_PluginFormats ==
  Called =>
    /\ \A k \in Declared \cap DOMAIN x0.props :
         /\ FormatOfKey(k) = "email" /\ x0.props[k] \in {HelloWorld, NotAnEmail} =>
              ~Accepted(k) /\ ~result.isValid
         /\ ConformingExample(FormatOfKey(k), x0.props[k]) =>
              Accepted(k) /\ Get(After, k) = x0.props[k]
    /\ x0.props \in {[email |-> Patricio],
                     [datetime |-> IsoDateTime, date |-> TestDate, time |-> TestTime]} =>
         result.isValid

\* C21's case: the instance of the DateTime, Date and Time test is parsed as
\* valid, its date-time still a string.
C21_Witness ==
  /\ JustParsed /\ Called /\ TheSchema = SchemaDates
  /\ x0.props = [datetime |-> IsoDateTime, date |-> TestDate, time |-> TestTime]
  /\ result.isValid
  /\ After["datetime"] = IsoDateTime /\ After["datetime"].t = "string"

\* The last call failed for want of a schema.
MissingSchema == result.threw /\ result.error = "Missing schema"

\* C22: once a Validator is constructed, getSchema() never fails with "Missing
\* schema" and returns the same cached compiled validator at every call, after
\* any sequence of parse and validate calls; "Missing schema" is raised
\* exactly when the engine has no validator under the facade's key (here:
\* after the schema was removed from the engine).
C22_GetSchemaCached ==
  /\ pc # "new" /\ ~log.removed => key \in DOMAIN registry
  /\ ~log.removed => ~MissingSchema
  /\ result.op # "none" => (MissingSchema <=> key \notin DOMAIN registry)
  /\ Cardinality(log.fns) <= 1
  /\ key \in DOMAIN cache => cache[key] \in log.fns

\* C22's case: a validate that follows two other calls gets the validator the
\* first call got.
C22_Witness ==
  /\ JustValidated /\ ~result.threw
  /\ log.calls = 3 /\ log.prev.op = "parse"
  /\ log.fns = {1} /\ cache[key] = 1

\* The defaults as documented.
DocumentedOptions ==
  [coerceTypes |-> "array", strict |-> "false", useDefaults |-> "true",
   removeAdditional |-> "true", allErrors |-> "true"]

DocumentedFormatsOptions == [mode |-> "fast"]

\* merged has the options of given, and the others as the defaults have them.
MergedOver(defaults, given, merged) ==
  /\ DOMAIN merged = (DOMAIN defaults) \cup (DOMAIN given)
  /\ \A name \in DOMAIN merged :
       merged[name] = IF name \in DOMAIN given THEN given[name] ELSE defaults[name]

\* C23: the engine options and the plugin options passed to the constructor
\* are merged over the defaults: an option passed replaces the default of its
\* name, an option not passed keeps its default (coerceTypes "array", strict
\* false, useDefaults true, removeAdditional true, allErrors true; mode
\* "fast"); constructing a Validator leaves Validator.DEFAULT_OPTIONS and
\* Validator.DEFAULT_FORMATS_OPTIONS as they were.
C23_OptionsMerged ==
  /\ statics = [options |-> DocumentedOptions, formats |-> DocumentedFormatsOptions]
  /\ pc # "new" =>
       /\ MergedOver(DocumentedOptions, passed, options)
       /\ MergedOver(DocumentedFormatsOptions, formats.passed, formats.options)

\* C23's case: new Validator(schema, {allErrors: false}, {mode: "full"}).
C23_Witness ==
  /\ pc = "ready"
  /\ passed = [allErrors |-> "false"] /\ formats.passed = [mode |-> "full"]
  /\ options.allErrors = "false" /\ options.coerceTypes = "array"
  /\ formats.options = [mode |-> "full"]
  /\ statics.options.allErrors = "true" /\ statics.formats.mode = "fast"

\* The engine of a Validator no call was made on.
FreshEngine ==
  [fnErrors |-> 0, lists |-> <<>>, cache |-> EmptyProps, compilations |-> 0, fn |-> 0]

\* The instance of the last call as it was passed, as the heap of a caller
\* that holds nothing else.
PassedHeap == IF ObjectPassed THEN <<x0.props>> ELSE <<>>

\* The data of a record: the properties of an object, the value otherwise.
DataOf(data, h) == IF data.t = "object" THEN JObj(h[data.ref]) ELSE data

\* The last result is the record r.result that a call has left in r.
SameRecord(r) ==
  /\ result.threw = r.result.threw
  /\ result.error = r.result.error
  /\ result.isValid = r.result.isValid
  /\ Errors = ErrorsAt(r.engine.lists, r.result.errors)
  /\ DataOf(result.data, heap) = DataOf(r.result.data, r.heap)

\* C24: the facade carries no state from one call to the next: whatever parse
\* and validate calls were made before on the Validator, the record parse(x)
\* returns is the one a Validator that was never called returns for the same
\* schema, options and x; the schema is compiled at most once in the
\* Validator's lifetime.
C24_NoStateBetweenCalls ==
  /\ compilations <= 1
  /\ JustParsed /\ ~log.removed =>
       SameRecord(parse(x0.v, PassedHeap, registry, options, FreshEngine))

\* C24's case: the third call, a parse of {number: "2"} that follows an
\* invalid validate, returns the valid {number: 2}; the schema was compiled
\* once.
C24_Witness ==
  /\ JustParsed /\ log.calls = 3
  /\ log.prev = [op |-> "validate", valid |-> FALSE]
  /\ x0.props = [number |-> Str(<<"2">>)]
  /\ result.isValid /\ DataProps = [number |-> Num(2, 0)]
  /\ compilations = 1

\* C25: the errors of a parse result are those of that call: a parse of a
\* valid instance that follows a parse or validate of an invalid one returns
\* no errors, and the errors list an earlier parse returned is not changed by
\* a later parse or validate.
C25_ErrorsOfTheCall ==
  /\ JustParsed /\ ~result.threw /\ result.isValid
       /\ log.prev.op # "none" /\ ~log.prev.valid =>
         result.errors = 0 /\ Errors = <<>>
  /\ log.kept.has => ErrorsAt(lists, log.kept.ref) = log.kept.errors

\* C25's case: the caller kept the result of an invalid parse, and a later
\* parse of a valid instance, right after an invalid call, has returned.
C25_Witness ==
  /\ JustParsed /\ ~result.threw /\ result.isValid
  /\ log.calls = 3 /\ log.prev.op # "none" /\ ~log.prev.valid
  /\ log.kept.has /\ log.kept.errors # <<>>
  /\ ErrorsAt(lists, log.kept.ref) = log.kept.errors
  /\ result.errors = 0

\* The instance of the last call can be written as JSON and read back as it
\* is: no undefined, no NaN.
Serialisable ==
  IF ObjectPassed THEN JsonObject(x0.props) = x0.props
  ELSE x0.v.t # "undefined" /\ JSONStringify(x0.v, <<>>) = x0.v

\* The last parse agrees with a validate that has left r, called on a copy of
\* the instance: the same answer, and data equal to the copy as it is then.
AgreesWithValidate(r) ==
  /\ ~r.result.threw
  /\ result.isValid = r.result.isValid
  /\ DataOf(result.data, heap) = DataOf(x0.v, r.heap)

\* C26: parse is validate applied to a copy: for an instance x that can be
\* written as JSON and a deep copy c of it, parse(x) returns a record whose
\* isValid is what validate(c) returns and whose data equals c as validate
\* has left it.
C26_ParseIsValidateOnCopy ==
  JustParsed /\ Serialisable =>
    /\ ~result.threw
    /\ AgreesWithValidate(validate(x0.v, PassedHeap, registry, options, FreshEngine))

\* C26's case: parse({title: 2, extra: "f"}) under additionalProperties false
\* is valid with the data {title: "2"}, as validate leaves a copy.
C26_Witness ==
  /\ JustParsed /\ Serialisable /\ TheSchema = SchemaTitleStrict
  /\ DefaultInForce("coerceTypes") /\ DefaultInForce("removeAdditional")
  /\ x0.props = [title |-> Num(2, 0), extra |-> Str(<<"f">>)]
  /\ result.isValid /\ DataProps = [title |-> Str(<<"2">>)]

\* A parse of the last parse's data has left r: valid, with equal data.
SameAgain(r) ==
  /\ ~r.result.threw
  /\ r.result.isValid
  /\ DataOf(r.result.data, r.heap) = DataOf(result.data, heap)

Sent == JsonObject(x0.props)

\* The declared property k of the copy, checked alone.
CheckedAlone(k) == ValidateValue(TheSchema.properties[k], Sent[k], options)

\* The property k must be reported: required and lacking with no default to
\* fill it, or present and failing its own check.
Fails(k) ==
  IF Missing(Sent, k)
  THEN k \in TheSchema.required /\ ~TheSchema.properties[k].hasDefault
  ELSE ~CheckedAlone(k).ok

\* C28: with the default options an invalid property does not stop the
\* others from being processed: in a parse result that is not valid, every
\* property that was absent and has a default holds the default, every
\* property present holds its value coerced when it can be, and the errors
\* have a descriptor for each failing property, not only for the first.
C28_AllPropertiesProcessed ==
  JustParsed /\ ~result.threw /\ ObjectPassed /\ ~result.isValid
    /\ passed = EmptyProps =>
      \A k \in Declared :
        /\ Missing(Sent, k) /\ TheSchema.properties[k].hasDefault =>
             Get(DataProps, k) = TheSchema.properties[k].default
        /\ ~Missing(Sent, k) => Get(DataProps, k) = CheckedAlone(k).value
        /\ Fails(k) => ~NoErrorAbout(k)

\* C28's case: parse({color: "#ZZZZZZ", colorWithAlpha: 2}): the number is
\* coerced to "2" although the color before it has failed, and both are
\* reported.
C28_Witness ==
  /\ JustParsed /\ ~result.threw /\ ~result.isValid /\ passed = EmptyProps
  /\ TheSchema = SchemaColor
  /\ x0.props = [color |-> Str(<<"#", "Z", "Z", "Z", "Z", "Z", "Z">>),
                 colorWithAlpha |-> Num(2, 0)]
  /\ DataProps = [color |-> Str(<<"#", "Z", "Z", "Z", "Z", "Z", "Z">>),
                  colorWithAlpha |-> Str(<<"2">>)]
  /\ Len(Errors) = 2

====
